---- MODULE Spec2Model ----
(***************************************************************************)
(* A model of the JSX handling of story-ui-mantine-live:                   *)
(*   - tokenizeJSX / parseJSXElement, the stack-based JSX-to-component     *)
(*     tree parser (the Node.js parser script stored in                     *)
(*     story-ui-docs/patterns/hero-sections.md);                           *)
(*   - extractJSX / findJSXEnd, the source sanitizer of the live preview;  *)
(*   - validateJSXResponse / generateComponentWithRetry / sendMessage of   *)
(*     the chat application.                                                *)
(* Text is a TLA+ string; the character at index i (1-based) of s is       *)
(* SubSeq(s, i, i).  A JavaScript offset k corresponds to index k + 1.     *)
(***************************************************************************)
EXTENDS Integers, Sequences, FiniteSets, TLC

VARIABLES
  pc,               \* position of the parser: "start", "loop", "done"
  inputLex,         \* the input, as the sequence of lexeme numbers it is built from
  tokens,           \* result of tokenizeJSX
  tokenIdx,         \* index of the next token of the for-of loop
  idCounter,        \* idCounter.value
  nodes,            \* the component objects allocated so far, by allocation order
  components,       \* the root array (indices into nodes)
  parseStack,       \* stack of {component, children}
  currentComponent, \* index into nodes, or Null
  calls,            \* number of calls of parseJSXElement made so far
  results,          \* for each input parsed so far, the first result returned
  xpc,              \* the step extractJSX is at
  code,             \* the argument of extractJSX
  cleanCode,        \* its local cleanCode
  outcome,          \* what the call returned or threw
  scanPc,           \* where a call of findJSXEnd is at
  scanCode,         \* the argument of findJSXEnd
  scan,             \* the locals of its loop
  scanResult,       \* the value it returned
  conversations,    \* App state: the stored conversations, newest first
  activeConversationId, \* App state: the selected conversation, or Null
  inputValue,       \* App state: the text of the input box
  isGenerating,     \* App state: a generation is in progress
  previewCode,      \* App state: the code shown in the preview, or Null
  apc,              \* where sendMessage is at
  conversationId,   \* sendMessage's local: the conversation it writes to
  attempt,          \* generateComponentWithRetry's loop counter
  lastError,        \* generateComponentWithRetry's lastError message
  llmContent,       \* generateComponent's content: the text the LLM returned
  validationResult, \* what validateJSXResponse returned for it
  generated,        \* the promise of generateComponentWithRetry
  sends,            \* number of messages sent so far
  nextId,           \* the ids generateId has handed out
  hlPc,             \* where a call of the highlighter's tokenize is at
  hlCode,           \* the argument of tokenize
  hlRemaining,      \* its local remaining
  hlTokens,         \* its local tokens
  iterations,       \* number of iterations of its while loop so far
  fsFiles,          \* the story files on disk: absent, empty or full
  rawReq,           \* the last request to /api/raw-source
  rawRes,           \* the response to it
  panelOp,          \* whether the Source Code panel is "mounted" or "off"
  embedded,         \* whether window.top is another window than window
  active,           \* the panel's prop active
  currentStoryId,   \* state.storyId, "" when undefined
  sourceCode,       \* the panel's state sourceCode
  storyTitle,       \* the panel's state storyTitle
  windowCache,      \* window.__STORY_UI_GENERATED_CODE__
  topCache,         \* window.top.__STORY_UI_GENERATED_CODE__, when embedded
  localStore,       \* localStorage item storyui_generated_code, parsed
  lastEvent,        \* the CODE_GENERATED event handled in the last step
  shPc,             \* where start-production.sh is at
  shPort,           \* wait_for_port's local port
  shAttempt,        \* wait_for_port's local attempt
  openPorts,        \* the ports that are bound on 127.0.0.1
  observed,         \* the ports nc has found open
  polls,            \* number of nc calls of the current wait_for_port
  exitStatus        \* the script's exit status, -1 while it has not exited

parseVars == <<pc, inputLex, tokens, tokenIdx, idCounter, nodes, components,
               parseStack, currentComponent>>
callVars == <<calls, results>>
extractVars == <<xpc, code, cleanCode, outcome>>
scanVars == <<scanPc, scanCode, scan, scanResult>>
appVars == <<conversations, activeConversationId, inputValue, isGenerating,
             previewCode, apc, conversationId, attempt, lastError, llmContent,
             validationResult, generated, sends, nextId>>

hlVars == <<hlPc, hlCode, hlRemaining, hlTokens, iterations>>
rawVars == <<fsFiles, rawReq, rawRes>>
panelVars == <<panelOp, embedded, active, currentStoryId, sourceCode,
               storyTitle, windowCache, topCache, localStore, lastEvent>>
startVars == <<shPc, shPort, shAttempt, openPorts, observed, polls, exitStatus>>

\* what the parser leaves alone
notParserVars == <<extractVars, scanVars, appVars, hlVars, rawVars, panelVars,
                   startVars>>
\* what extractJSX leaves alone
notExtractVars == <<parseVars, callVars, scanVars, appVars, hlVars, rawVars,
                    panelVars, startVars>>
\* what findJSXEnd leaves alone
notScanVars == <<parseVars, callVars, extractVars, appVars, hlVars, rawVars,
                 panelVars, startVars>>
\* what the App leaves alone
notAppVars == <<parseVars, callVars, extractVars, scanVars, hlVars, rawVars,
                panelVars, startVars>>
\* what the highlighter's tokenize leaves alone
notHlVars == <<parseVars, callVars, extractVars, scanVars, appVars, rawVars,
               panelVars, startVars>>
\* what the raw-source endpoints leave alone
notRawVars == <<parseVars, callVars, extractVars, scanVars, appVars, hlVars,
                panelVars, startVars>>
\* what the Source Code panel leaves alone
notPanelVars == <<parseVars, callVars, extractVars, scanVars, appVars, hlVars,
                  rawVars, startVars>>
\* what the start script leaves alone
notStartVars == <<parseVars, callVars, extractVars, scanVars, appVars, hlVars,
                  rawVars, panelVars>>

vars == <<parseVars, callVars, extractVars, scanVars, appVars, hlVars, rawVars,
          panelVars, startVars>>

NoOutcome == [kind |-> "none", value |-> ""]

\* no call of extractJSX is in progress
ExtractIdle ==
  /\ xpc = "idle"
  /\ code = ""
  /\ cleanCode = ""
  /\ outcome = NoOutcome

\* no call of findJSXEnd on its own is in progress
ScanIdle ==
  /\ scanPc = "idle"
  /\ scanCode = ""
  /\ scan = <<>>
  /\ scanResult = 0

NoValidation == [isValid |-> TRUE, error |-> ""]
NoPromise == [state |-> "none", value |-> ""]

\* the App is not running
AppIdle ==
  /\ conversations = <<>>
  /\ activeConversationId = 0
  /\ inputValue = ""
  /\ isGenerating = FALSE
  /\ previewCode = ""
  /\ apc = "off"
  /\ conversationId = 0
  /\ attempt = 0
  /\ lastError = ""
  /\ llmContent = ""
  /\ validationResult = NoValidation
  /\ generated = NoPromise
  /\ sends = 0
  /\ nextId = 1

\* no call of the highlighter's tokenize is in progress
HlIdle ==
  /\ hlPc = "idle"
  /\ hlCode = ""
  /\ hlRemaining = ""
  /\ hlTokens = <<>>
  /\ iterations = 0

NoRequest == [server |-> "none", file |-> "", isEdited |-> FALSE]
NoResponse == [statusCode |-> 0, dir |-> "", ext |-> ""]

\* no dev server is running
RawIdle ==
  /\ fsFiles = <<>>
  /\ rawReq = NoRequest
  /\ rawRes = NoResponse

NoEvent == [storyId |-> "", code |-> "", emitted |-> FALSE]

\* the Source Code panel is not mounted
PanelIdle ==
  /\ panelOp = "off"
  /\ embedded = FALSE
  /\ active = FALSE
  /\ currentStoryId = ""
  /\ sourceCode = ""
  /\ storyTitle = ""
  /\ windowCache = <<>>
  /\ topCache = <<>>
  /\ localStore = <<>>
  /\ lastEvent = NoEvent

\* start-production.sh is not running
StartIdle ==
  /\ shPc = "idle"
  /\ shPort = 0
  /\ shAttempt = 0
  /\ openPorts = {}
  /\ observed = {}
  /\ polls = 0
  /\ exitStatus = -1

\* the manager's panel and the start script are idle
ToolsIdle == PanelIdle /\ StartIdle

\* the highlighter, the dev servers, the panel and the start script are idle
RestIdle == HlIdle /\ RawIdle /\ ToolsIdle

\* nothing outside the parser is in progress
NotParserIdle == ExtractIdle /\ ScanIdle /\ AppIdle /\ RestIdle

----------------------------------------------------------------------------
(* Characters and strings                                                  *)

UpperLetters == "ABCDEFGHIJKLMNOPQRSTUVWXYZ"
LowerLetters == "abcdefghijklmnopqrstuvwxyz"
DigitChars == "0123456789"

CharSet(str) == {SubSeq(str, i, i) : i \in 1..Len(str)}

Upper == CharSet(UpperLetters)
Lower == CharSet(LowerLetters)
Digit == CharSet(DigitChars)
Alpha == Upper \cup Lower
AlphaNum == Alpha \cup Digit
\* /\s/ restricted to the whitespace characters the inputs use
Space == {" ", "\n", "\t"}
\* /[a-zA-Z0-9._]/
TagNameChar == AlphaNum \cup {".", "_"}

Null == 0

Min(S) == CHOOSE x \in S : \A y \in S : x <= y
Max(S) == CHOOSE x \in S : \A y \in S : x >= y

\* s[i] of JavaScript: "undefined" outside the string
CharAt(s, i) == IF i >= 1 /\ i <= Len(s) THEN SubSeq(s, i, i) ELSE "undefined"

\* s.substring(i - 1): the text from index i on
From(s, i) == SubSeq(s, i, Len(s))

\* s.substring(a - 1, b): indices a..b, cut to the string
Slice(s, a, b) ==
  SubSeq(s, IF a < 1 THEN 1 ELSE a, IF b > Len(s) THEN Len(s) ELSE b)

\* the first index j >= i whose character is outside C, Len(s) + 1 if none
RECURSIVE SkipWhile(_, _, _)
SkipWhile(s, i, C) ==
  IF i > Len(s) \/ CharAt(s, i) \notin C THEN i ELSE SkipWhile(s, i + 1, C)

\* the first index j >= i whose character is in C, Len(s) + 1 if none
RECURSIVE SkipUntil(_, _, _)
SkipUntil(s, i, C) ==
  IF i > Len(s) \/ CharAt(s, i) \in C THEN i ELSE SkipUntil(s, i + 1, C)

\* the last index j <= i whose character is outside C, 0 if none
RECURSIVE SkipBack(_, _, _)
SkipBack(s, i, C) ==
  IF i < 1 \/ CharAt(s, i) \notin C THEN i ELSE SkipBack(s, i - 1, C)

\* p occurs in s at index i
OccursAt(s, i, p) ==
  /\ i >= 1
  /\ i + Len(p) - 1 <= Len(s)
  /\ SubSeq(s, i, i + Len(p) - 1) = p

StartsWith(s, p) == OccursAt(s, 1, p)
EndsWith(s, p) == Len(p) <= Len(s) /\ OccursAt(s, Len(s) - Len(p) + 1, p)

\* the first index >= i at which p occurs, 0 if none (indexOf, 1-based)
RECURSIVE IndexOfFrom(_, _, _)
IndexOfFrom(s, p, i) ==
  IF i + Len(p) - 1 > Len(s) THEN 0
  ELSE IF OccursAt(s, i, p) THEN i
  ELSE IndexOfFrom(s, p, i + 1)

IndexOf(s, p) == IndexOfFrom(s, p, 1)
Includes(s, p) == IndexOf(s, p) # 0

\* String.prototype.trim
Trim(s) == SubSeq(s, SkipWhile(s, 1, Space), SkipBack(s, Len(s), Space))

\* the lower-case letter of each upper-case letter
LowerOf ==
  [c \in Upper |->
     LET i == CHOOSE k \in 1..Len(UpperLetters) : SubSeq(UpperLetters, k, k) = c
     IN SubSeq(LowerLetters, i, i)]

\* String.prototype.toLowerCase
RECURSIVE ToLowerCase(_)
ToLowerCase(s) ==
  IF s = "" THEN ""
  ELSE LET c == SubSeq(s, 1, 1)
       IN (IF c \in Upper THEN LowerOf[c] ELSE c) \o ToLowerCase(From(s, 2))

RECURSIVE Concat(_)
Concat(strs) == IF strs = <<>> THEN "" ELSE Head(strs) \o Concat(Tail(strs))

Range(f) == {f[x] : x \in DOMAIN f}

\* all sequences over S of length at most n
SeqsUpTo(S, n) == UNION {[1..k -> S] : k \in 0..n}

----------------------------------------------------------------------------
(* The component tables of the parser script                               *)

\* mockComponentTypes, in insertion order
mockComponentTypes ==
  << <<"Container", "Container">>, <<"Stack", "Stack">>,
     <<"SimpleGrid", "SimpleGrid">>, <<"Card", "Card">>,
     <<"Card.Section", "CardSection">>, <<"Image", "Image">>,
     <<"Text", "Text">>, <<"Title", "Title">>, <<"Badge", "Badge">>,
     <<"Button", "Button">>, <<"Group", "Group">>, <<"Avatar", "Avatar">>,
     <<"div", "Box">>, <<"span", "Text">> >>

mockCategories ==
  << <<"Container", "Layout">>, <<"Stack", "Layout">>,
     <<"SimpleGrid", "Layout">>, <<"Group", "Layout">>, <<"Box", "Layout">>,
     <<"Card", "Data Display">>, <<"CardSection", "Data Display">>,
     <<"Image", "Data Display">>, <<"Avatar", "Data Display">>,
     <<"Text", "Typography">>, <<"Title", "Typography">>,
     <<"Badge", "Feedback">>, <<"Button", "Inputs">> >>

\* table[key] of a JavaScript object given as its entries; "undefined" if absent
Lookup(table, key) ==
  LET hits == {i \in DOMAIN table : table[i][1] = key}
  IN IF hits = {} THEN "undefined" ELSE table[Max(hits)][2]

\* a resolver that looks up only the part of the name before the first "."
ComponentTypeOfFirstSegment(tagName) ==
  LET dot == IndexOf(tagName, ".")
      first == IF dot = 0 THEN tagName ELSE SubSeq(tagName, 1, dot - 1)
      v == Lookup(mockComponentTypes, first)
  IN IF v = "undefined" THEN first ELSE v

\* mockComponentTypes[tagName] || tagName
ComponentTypeOf(tagName) ==
  LET v == Lookup(mockComponentTypes, tagName)
  IN IF v = "undefined" THEN tagName ELSE v

\* mockCategories[componentType] || 'Other'
CategoryOf(componentType) ==
  LET v == Lookup(mockCategories, componentType)
  IN IF v = "undefined" THEN "Other" ELSE v

\* getOriginalTagName: the reverse map keeps, for each value, the LAST key
\* that maps to it (later entries overwrite earlier ones)
getOriginalTagName(componentType) ==
  LET hits == {i \in DOMAIN mockComponentTypes :
                 mockComponentTypes[i][2] = componentType}
  IN IF hits = {} THEN componentType ELSE mockComponentTypes[Max(hits)][1]

----------------------------------------------------------------------------
(* tokenizeJSX                                                             *)

Token(type, tagName, attributes, content, start, end) ==
  [type |-> type, tagName |-> tagName, attributes |-> attributes,
   content |-> content, position |-> [start |-> start, end |-> end]]

\* the attribute loop: stops at ">" or at "/>" or at the end of the text
RECURSIVE AttrEnd(_, _)
AttrEnd(jsx, i) ==
  IF \/ i > Len(jsx)
     \/ CharAt(jsx, i) = ">"
     \/ (CharAt(jsx, i) = "/" /\ CharAt(jsx, i + 1) = ">")
  THEN i
  ELSE AttrEnd(jsx, i + 1)

RECURSIVE TokenizeFrom(_, _, _)
TokenizeFrom(jsx, i0, toks) ==
  LET i == SkipWhile(jsx, i0, Space)
  IN
  IF i > Len(jsx) THEN toks
  ELSE IF CharAt(jsx, i) = "<" THEN
    LET isClosingTag == CharAt(jsx, i + 1) = "/"
        n0 == IF isClosingTag THEN i + 2 ELSE i + 1
        n1 == SkipWhile(jsx, n0, TagNameChar)
        tagName == SubSeq(jsx, n0, n1 - 1)
    IN
    IF tagName = "" THEN TokenizeFrom(jsx, n1 + 1, toks)
    ELSE IF isClosingTag THEN
      LET g == SkipUntil(jsx, n1, {">"})
          e == IF CharAt(jsx, g) = ">" THEN g + 1 ELSE g
      IN TokenizeFrom(jsx, e,
           Append(toks, Token("tag_close", tagName, "", "", i - 1, e - 1)))
    ELSE
      LET a == AttrEnd(jsx, n1)
          attributes == SubSeq(jsx, n1, a - 1)
          isSelfClosing == CharAt(jsx, a) = "/" /\ CharAt(jsx, a + 1) = ">"
      IN
      IF isSelfClosing THEN
        TokenizeFrom(jsx, a + 2,
          Append(toks, Token("tag_self_close", tagName, Trim(attributes), "",
                             i - 1, a + 1)))
      ELSE IF CharAt(jsx, a) = ">" THEN
        TokenizeFrom(jsx, a + 1,
          Append(toks, Token("tag_open", tagName, Trim(attributes), "",
                             i - 1, a)))
      ELSE TokenizeFrom(jsx, a, toks)
  ELSE
    LET e == SkipUntil(jsx, i, {"<"})
        textContent == SubSeq(jsx, i, e - 1)
    IN
    IF Trim(textContent) # ""
    THEN TokenizeFrom(jsx, e,
           Append(toks, Token("text", "", "", Trim(textContent), i - 1, e - 1)))
    ELSE TokenizeFrom(jsx, e, toks)

tokenizeJSX(jsx) == TokenizeFrom(jsx, 1, <<>>)

----------------------------------------------------------------------------
(* Inputs of the parser: a sequence of at most MaxLex lexemes.  Each       *)
(* lexeme carries what it is in the source text (its kind, tag name and    *)
(* attribute text), against which the parser's output is judged.           *)

MaxLex == 4

ParseLexemes ==
  << [text |-> "<Card>", kind |-> "open", tag |-> "Card", attrs |-> ""],
     [text |-> "</Card>", kind |-> "close", tag |-> "Card", attrs |-> ""],
     [text |-> "<Card.Section>", kind |-> "open", tag |-> "Card.Section",
      attrs |-> ""],
     [text |-> "</Card.Section>", kind |-> "close", tag |-> "Card.Section",
      attrs |-> ""],
     [text |-> "<Foo style={{ w: 4 }} />", kind |-> "self", tag |-> "Foo",
      attrs |-> "style={{ w: 4 }}"],
     [text |-> "<Text>", kind |-> "open", tag |-> "Text", attrs |-> ""],
     [text |-> "</Text>", kind |-> "close", tag |-> "Text", attrs |-> ""],
     [text |-> "\n Hi\n", kind |-> "text", tag |-> "", attrs |-> ""],
     [text |-> "<Box onClick={() => go()}>", kind |-> "open", tag |-> "Box",
      attrs |-> "onClick={() => go()}"] >>

ParseInputs == SeqsUpTo(DOMAIN ParseLexemes, MaxLex)

\* the source text of an input
Render(table, lex) == Concat([k \in DOMAIN lex |-> table[lex[k]].text])

----------------------------------------------------------------------------
(* parseJSXElement                                                         *)

\* textContent.replace(/^\{|\}$/g, '')
StripBraces(s) ==
  LET a == IF StartsWith(s, "{") THEN From(s, 2) ELSE s
  IN IF EndsWith(a, "}") THEN SubSeq(a, 1, Len(a) - 1) ELSE a

\* textContent.replace(/^["']|["']$/g, '')
StripQuotes(s) ==
  LET a == IF CharAt(s, 1) \in {"\"", "'"} THEN From(s, 2) ELSE s
  IN IF a # "" /\ CharAt(a, Len(a)) \in {"\"", "'"}
     THEN SubSeq(a, 1, Len(a) - 1) ELSE a

NoProps == [x \in {} |-> ""]

\* a component object; its id is `${prefix}-${idCounter.value++}`
NewComponent(prefix, type, category, n, props) ==
  [id |-> <<prefix, n>>, type |-> type, displayName |-> type,
   category |-> category, props |-> props]

\* the component built for a tag_open or tag_self_close token
TagComponent(tagName, n) ==
  LET componentType == ComponentTypeOf(tagName)
  IN NewComponent(ToLowerCase(componentType), componentType,
                  CategoryOf(componentType), n, NoProps)

TextComponent(textContent, n) ==
  NewComponent("text", "Text", "Typography", n,
               ("children" :> StripQuotes(textContent)))

\* children of a component object: the property is absent until assigned
ChildrenOf(node) == IF "children" \in DOMAIN node THEN node.children ELSE <<>>

WithChildren(node, arr) == ("children" :> arr) @@ node

WithTextProp(node, txt) == [node EXCEPT !.props = ("children" :> txt)]

Top(stack) == stack[Len(stack)]
Pop(stack) == SubSeq(stack, 1, Len(stack) - 1)
PushChild(stack, n) ==
  [stack EXCEPT ![Len(stack)].children = Append(@, n)]

\* what a call would start from if the parser kept its working state
\* (stack, current component, id counter) in variables outliving the call
LocalsKeptAcrossCalls ==
  [idCounter |-> idCounter, nodes |-> nodes, components |-> <<>>,
   parseStack |-> parseStack, currentComponent |-> currentComponent]

\* the locals of a call of parseJSXElement:
\* const components = []; const idCounter = { value: 1 };
\* const parseStack = []; let currentComponent = null;
\* (no component object of an earlier call is referenced by them)
ParseLocals ==
  [idCounter |-> 1, nodes |-> <<>>, components |-> <<>>,
   parseStack |-> <<>>, currentComponent |-> Null]

\* the same locals as the state a call starts in
LocalsAtEntry ==
  /\ idCounter = 1
  /\ nodes = <<>>
  /\ components = <<>>
  /\ parseStack = <<>>
  /\ currentComponent = Null

NoResults == [x \in {} |-> <<>>]

InitParse ==
  /\ pc = "start"
  /\ inputLex \in ParseInputs
  /\ tokens = <<>>
  /\ tokenIdx = 1
  /\ LocalsAtEntry
  /\ calls = 1
  /\ results = NoResults
  /\ NotParserIdle

jsxText == Trim(Render(ParseLexemes, inputLex))

\* if (!jsx) return components;
ParseEmpty ==
  /\ UNCHANGED <<callVars, notParserVars>>
  /\ pc = "start"
  /\ jsxText = ""
  /\ pc' = "done"
  /\ UNCHANGED <<inputLex, tokens, tokenIdx, idCounter, nodes, components,
                 parseStack, currentComponent>>

\* Handle pure text content: if (!jsx.startsWith('<')) { ... return components; }
ParsePureText ==
  /\ UNCHANGED <<callVars, notParserVars>>
  /\ pc = "start"
  /\ jsxText # ""
  /\ ~StartsWith(jsxText, "<")
  /\ LET textContent == Trim(StripBraces(jsxText))
     IN IF textContent # ""
        THEN /\ nodes' = Append(nodes, TextComponent(textContent, idCounter))
             /\ components' = Append(components, Len(nodes) + 1)
             /\ idCounter' = idCounter + 1
        ELSE UNCHANGED <<nodes, components, idCounter>>
  /\ pc' = "done"
  /\ UNCHANGED <<inputLex, tokens, tokenIdx, parseStack, currentComponent>>

\* const tokens = tokenizeJSX(jsx);
Tokenize ==
  /\ UNCHANGED <<callVars, notParserVars>>
  /\ pc = "start"
  /\ StartsWith(jsxText, "<")
  /\ tokens' = tokenizeJSX(jsxText)
  /\ tokenIdx' = 1
  /\ pc' = "loop"
  /\ UNCHANGED <<inputLex, idCounter, nodes, components, parseStack,
                 currentComponent>>

HasToken == pc = "loop" /\ tokenIdx <= Len(tokens)
token == tokens[tokenIdx]

\* case 'tag_open'
TagOpen ==
  /\ UNCHANGED <<callVars, notParserVars>>
  /\ HasToken
  /\ token.type = "tag_open"
  /\ nodes' = Append(nodes, TagComponent(token.tagName, idCounter))
  /\ idCounter' = idCounter + 1
  /\ parseStack' = IF currentComponent # Null
                   THEN Append(parseStack,
                               [component |-> currentComponent, children |-> <<>>])
                   ELSE parseStack
  /\ currentComponent' = Len(nodes) + 1
  /\ tokenIdx' = tokenIdx + 1
  /\ UNCHANGED <<pc, inputLex, tokens, components>>

\* case 'tag_self_close'
TagSelfClose ==
  /\ UNCHANGED <<callVars, notParserVars>>
  /\ HasToken
  /\ token.type = "tag_self_close"
  /\ nodes' = Append(nodes, TagComponent(token.tagName, idCounter))
  /\ idCounter' = idCounter + 1
  /\ IF Len(parseStack) > 0
     THEN /\ parseStack' = PushChild(parseStack, Len(nodes) + 1)
          /\ UNCHANGED components
     ELSE /\ components' = Append(components, Len(nodes) + 1)
          /\ UNCHANGED parseStack
  /\ tokenIdx' = tokenIdx + 1
  /\ UNCHANGED <<pc, inputLex, tokens, currentComponent>>

\* the test of case 'tag_close'
CloseMatches(cur, tagName) ==
  cur # Null /\ tagName = getOriginalTagName(nodes[cur].type)

\* case 'tag_close'.  parent.children is the array that was just assigned to
\* currentComponent.children, so the push adds the component to its own
\* children array; the popped context is referenced by nothing else.
TagClose ==
  /\ UNCHANGED <<callVars, notParserVars>>
  /\ HasToken
  /\ token.type = "tag_close"
  /\ IF CloseMatches(currentComponent, token.tagName)
     THEN IF Len(parseStack) > 0
          THEN LET parentContext == Top(parseStack)
                   pushed == Append(parentContext.children, currentComponent)
               IN /\ nodes' = IF Len(parentContext.children) > 0
                              THEN [nodes EXCEPT ![currentComponent] =
                                      WithChildren(@, pushed)]
                              ELSE nodes
                  /\ parseStack' = Pop(parseStack)
                  /\ currentComponent' = parentContext.component
                  /\ UNCHANGED components
          ELSE /\ components' = Append(components, currentComponent)
               /\ currentComponent' = Null
               /\ UNCHANGED <<nodes, parseStack>>
     ELSE UNCHANGED <<nodes, parseStack, currentComponent, components>>
  /\ tokenIdx' = tokenIdx + 1
  /\ UNCHANGED <<pc, inputLex, tokens, idCounter>>

\* case 'text'
TextToken ==
  /\ UNCHANGED <<callVars, notParserVars>>
  /\ HasToken
  /\ token.type = "text"
  /\ LET textContent == Trim(StripBraces(token.content))
     IN IF textContent # ""
        THEN /\ idCounter' = idCounter + 1
             /\ IF Len(parseStack) > 0
                THEN /\ nodes' = Append(nodes, TextComponent(textContent, idCounter))
                     /\ parseStack' = PushChild(parseStack, Len(nodes) + 1)
                     /\ UNCHANGED components
                ELSE IF currentComponent # Null
                THEN /\ nodes' = Append(
                          [nodes EXCEPT ![currentComponent] =
                             WithTextProp(@, StripQuotes(textContent))],
                          TextComponent(textContent, idCounter))
                     /\ UNCHANGED <<parseStack, components>>
                ELSE /\ nodes' = Append(nodes, TextComponent(textContent, idCounter))
                     /\ components' = Append(components, Len(nodes) + 1)
                     /\ UNCHANGED parseStack
        ELSE UNCHANGED <<idCounter, nodes, parseStack, components>>
  /\ tokenIdx' = tokenIdx + 1
  /\ UNCHANGED <<pc, inputLex, tokens, currentComponent>>

\* Handle any remaining component on stack; return components
ParseFinish ==
  /\ UNCHANGED <<callVars, notParserVars>>
  /\ pc = "loop"
  /\ tokenIdx > Len(tokens)
  /\ components' = IF currentComponent # Null
                   THEN Append(components, currentComponent)
                   ELSE components
  /\ pc' = "done"
  /\ UNCHANGED <<inputLex, tokens, tokenIdx, idCounter, nodes, parseStack,
                 currentComponent>>

ParseStep ==
  \/ ParseEmpty
  \/ ParsePureText
  \/ Tokenize
  \/ TagOpen
  \/ TagSelfClose
  \/ TagClose
  \/ TextToken
  \/ ParseFinish

NextParse == ParseStep

\* one call of parseJSXElement on one input
SpecParse == InitParse /\ [][NextParse]_vars

----------------------------------------------------------------------------
(* What the source text and the token stream say, for judging the tree     *)

LexemeOf(k) == ParseLexemes[inputLex[k]]

\* every closing tag closes the nearest open element, and none stays open
RECURSIVE BalancedFrom(_, _, _)
BalancedFrom(items, k, open) ==
  IF k > Len(items) THEN open = <<>>
  ELSE LET it == items[k]
       IN IF it.kind = "open" THEN BalancedFrom(items, k + 1, Append(open, it.tag))
          ELSE IF it.kind = "close"
          THEN /\ open # <<>>
               /\ Top(open) = it.tag
               /\ BalancedFrom(items, k + 1, Pop(open))
          ELSE BalancedFrom(items, k + 1, open)

BalancedSource ==
  BalancedFrom([k \in DOMAIN inputLex |-> LexemeOf(k)], 1, <<>>)

\* the number of opening tags of the source, paired and self-closing
OpeningTagCount ==
  Cardinality({k \in DOMAIN inputLex : LexemeOf(k).kind \in {"open", "self"}})

TokenKind(type) ==
  CASE type = "tag_open" -> "open"
    [] type = "tag_close" -> "close"
    [] type = "tag_self_close" -> "self"
    [] OTHER -> "text"

BalancedTokens ==
  BalancedFrom([k \in DOMAIN tokens |->
                  [kind |-> TokenKind(tokens[k].type), tag |-> tokens[k].tagName]],
               1, <<>>)

\* the tokens that allocate a component object, in order: the component
\* nodes[i] of a tokenized input was built for Creators[i]
Creators == SelectSeq(tokens, LAMBDA t : t.type # "tag_close")

IsTagNode(i) == i <= Len(Creators) /\ Creators[i].type # "text"

\* the index in nodes of the component built for token j
NodeOfToken(j) ==
  Cardinality({k \in 1..j : tokens[k].type # "tag_close"})

\* the token that opened the element open at token j (0 if none is open)
RECURSIVE OpenElementFrom(_, _, _)
OpenElementFrom(k, j, open) ==
  IF k >= j THEN (IF open = <<>> THEN 0 ELSE Top(open))
  ELSE IF tokens[k].type = "tag_open" THEN OpenElementFrom(k + 1, j, Append(open, k))
  ELSE IF tokens[k].type = "tag_close" /\ open # <<>>
  THEN OpenElementFrom(k + 1, j, Pop(open))
  ELSE OpenElementFrom(k + 1, j, open)

OpenElementAt(j) == OpenElementFrom(1, j, <<>>)

RECURSIVE SumSeq(_)
SumSeq(s) == IF s = <<>> THEN 0 ELSE Head(s) + SumSeq(Tail(s))

\* countComponents of the parser script, cut off at depth `fuel`;
\* only the components in `counted` count
RECURSIVE CountComponents(_, _, _)
CountComponents(comps, fuel, counted) ==
  IF fuel = 0 THEN 0
  ELSE Cardinality({k \in DOMAIN comps : comps[k] \in counted})
       + SumSeq([k \in DOMAIN comps |->
                   CountComponents(ChildrenOf(nodes[comps[k]]), fuel - 1, counted)])

TagNodes == {i \in DOMAIN nodes : IsTagNode(i)}

\* the components of the returned forest: roots and all descendants
RECURSIVE ReachableFrom(_, _)
ReachableFrom(S, fuel) ==
  IF fuel = 0 THEN S
  ELSE ReachableFrom(S \cup UNION {Range(ChildrenOf(nodes[i])) : i \in S}, fuel - 1)

InTree == ReachableFrom(Range(components), Len(nodes))

Increasing(s) == \A a, b \in DOMAIN s : a < b => s[a] < s[b]

MappedNames == {mockComponentTypes[i][1] : i \in DOMAIN mockComponentTypes}
CategorizedTypes == {mockCategories[i][1] : i \in DOMAIN mockCategories}

----------------------------------------------------------------------------
(* Claims about the parser                                                 *)

\* C1: for a source that starts with a tag and whose tags are properly
\* balanced, the number of components in the returned forest (roots and all
\* descendants, the implicit text leaves not counted) equals the number of
\* opening tags.
C1_NodeCountEqualsOpeningTags ==
  (pc = "done" /\ BalancedSource /\ StartsWith(jsxText, "<"))
    => CountComponents(components, Len(nodes) + 1, TagNodes) = OpeningTagCount

\* C2: in the result the root sequence and the children of every component
\* are in the order of their opening tags in the source (components are
\* allocated in source order, so their indices must increase).
C2_ChildrenInSourceOrder ==
  pc = "done"
    => /\ Increasing(components)
       /\ \A i \in InTree : Increasing(ChildrenOf(nodes[i]))

\* C3: every tag_self_close token yields a component without children,
\* which is a child of the element open at that token, and a root only
\* when no element is open (stated for balanced token streams).
C3_SelfCloseIsLeafOfOpenElement ==
  (pc = "done" /\ tokens # <<>> /\ BalancedTokens)
    => \A j \in DOMAIN tokens :
         tokens[j].type = "tag_self_close"
           => LET n == NodeOfToken(j)
                  p == OpenElementAt(j)
              IN /\ ChildrenOf(nodes[n]) = <<>>
                 /\ IF p = 0
                    THEN n \in Range(components)
                    ELSE n \in Range(ChildrenOf(nodes[NodeOfToken(p)]))

C5_AttributesCapturedWhole ==
  pc = "loop"
    => \A k \in DOMAIN inputLex :
         LexemeOf(k).kind \in {"open", "self"}
           => \E j \in DOMAIN tokens :
                /\ TokenKind(tokens[j].type) = LexemeOf(k).kind
                /\ tokens[j].tagName = LexemeOf(k).tag
                /\ tokens[j].attributes = LexemeOf(k).attrs

----------------------------------------------------------------------------
(* Repeated calls of parseJSXElement, in any order of inputs               *)

MaxCalls == 3

\* <Card><Card>, <Foo ... />, <Card> Hi <Foo ... /></Card>, text only, empty
CallInputs == {<<1, 1>>, <<5>>, <<1, 8, 5, 2>>, <<8>>, <<>>}

\* a component and its descendants as a value, without the id numbers
RECURSIVE TreeOf(_, _)
TreeOf(i, fuel) ==
  [type |-> nodes[i].type, displayName |-> nodes[i].displayName,
   category |-> nodes[i].category, props |-> nodes[i].props,
   idPrefix |-> nodes[i].id[1],
   children |-> IF fuel = 0 THEN <<>>
                ELSE [k \in DOMAIN ChildrenOf(nodes[i]) |->
                        TreeOf(ChildrenOf(nodes[i])[k], fuel - 1)]]

\* the id numbers of a forest, in document order
RECURSIVE IdsOf(_, _)
IdsOf(comps, fuel) ==
  IF fuel = 0 \/ comps = <<>> THEN <<>>
  ELSE <<nodes[Head(comps)].id[2]>>
       \o IdsOf(ChildrenOf(nodes[Head(comps)]), fuel - 1)
       \o IdsOf(Tail(comps), fuel)

\* the value returned by the call that is at "done"
Returned ==
  [forest |-> [k \in DOMAIN components |-> TreeOf(components[k], Len(nodes))],
   ids |-> IdsOf(components, Len(nodes) + 1)]

\* the ids of two results differ by an injective, order-preserving renaming
SameIdOrder(a, b) ==
  /\ Len(a) = Len(b)
  /\ \A x, y \in DOMAIN a : (a[x] < a[y]) <=> (b[x] < b[y])

InitCalls ==
  /\ pc = "idle"
  /\ inputLex = <<>>
  /\ tokens = <<>>
  /\ tokenIdx = 1
  /\ LocalsAtEntry
  /\ calls = 0
  /\ results = NoResults
  /\ NotParserIdle

\* parseJSXElement(jsx) is called: its locals are created
Call ==
  /\ pc = "idle"
  /\ calls < MaxCalls
  /\ \E input \in CallInputs : inputLex' = input
  /\ calls' = calls + 1
  /\ pc' = "start"
  /\ tokens' = <<>>
  /\ tokenIdx' = 1
  /\ idCounter' = ParseLocals.idCounter
  /\ nodes' = ParseLocals.nodes
  /\ components' = ParseLocals.components
  /\ parseStack' = ParseLocals.parseStack
  /\ currentComponent' = ParseLocals.currentComponent
  /\ UNCHANGED <<results, notParserVars>>

\* return components: the caller keeps the first result of each input
Return ==
  /\ pc = "done"
  /\ pc' = "idle"
  /\ results' = IF inputLex \in DOMAIN results THEN results
                ELSE (inputLex :> Returned) @@ results
  /\ UNCHANGED <<inputLex, tokens, tokenIdx, idCounter, nodes, components,
                 parseStack, currentComponent, calls, notParserVars>>

NextCalls ==
  \/ Call
  \/ Return
  \/ ParseStep

SpecCalls == InitCalls /\ [][NextCalls]_vars

\* C7: a parse of an input that was parsed before, whatever was parsed in
\* between, returns the same forest (component types, tag names, props,
\* children order), with ids that differ at most by an injective,
\* order-preserving renaming.
C7_ParseDeterministic ==
  (pc = "done" /\ inputLex \in DOMAIN results)
    => /\ Returned.forest = results[inputLex].forest
       /\ SameIdOrder(Returned.ids, results[inputLex].ids)

\* the same input parsed again after a call that ended with elements open
C7_Witness ==
  /\ pc = "done"
  /\ calls = 3
  /\ inputLex = <<5>>
  /\ inputLex \in DOMAIN results
  /\ <<1, 1>> \in DOMAIN results
  /\ Len(Returned.forest) = 1

----------------------------------------------------------------------------
(* The regular expressions of extractJSX, as matchers                      *)

NoMatch == [start |-> 0, end |-> 0]
Matched(m) == m.start # 0
MatchText(s, m) == SubSeq(s, m.start, m.end)

\* the index of the first ">" at or after i, Len(s) + 1 if none
NextGt(s, i) == SkipUntil(s, i, {">"})

\* /^<!DOCTYPE\s+html/i or /^<html[\s>]/i
IsHtmlDocument(s) ==
  \/ /\ ToLowerCase(Slice(s, 1, 9)) = "<!doctype"
     /\ CharAt(s, 10) \in Space
     /\ ToLowerCase(Slice(s, SkipWhile(s, 10, Space),
                          SkipWhile(s, 10, Space) + 3)) = "html"
  \/ /\ ToLowerCase(Slice(s, 1, 5)) = "<html"
     /\ CharAt(s, 6) \in Space \cup {">"}

\* /<([A-Z][a-zA-Z0-9]*)[^>]*>[\s\S]*?<\/\1>/ tried at index p: the name is
\* the longest prefix of the tag's name whose closing tag occurs after the
\* first ">", and the match ends with the first such closing tag
ElementAt(s, p) ==
  IF ~(CharAt(s, p) = "<" /\ CharAt(s, p + 1) \in Upper) THEN NoMatch
  ELSE LET nameEnd == SkipWhile(s, p + 2, AlphaNum) - 1
           q == NextGt(s, p + 2)
           Closing(k) == "</" \o SubSeq(s, p + 1, p + k) \o ">"
           ks == {k \in 1..(nameEnd - p) :
                    IndexOfFrom(s, Closing(k), q + 1) # 0}
       IN IF q > Len(s) \/ ks = {} THEN NoMatch
          ELSE [start |-> p,
                end |-> IndexOfFrom(s, Closing(Max(ks)), q + 1) + Max(ks) + 2]

\* the leftmost match of the pattern tried by At, from index p on
RECURSIVE Leftmost(_, _, _)
Leftmost(At(_, _), s, p) ==
  LET lt == IndexOfFrom(s, "<", p)
  IN IF lt = 0 THEN NoMatch
     ELSE IF Matched(At(s, lt)) THEN At(s, lt)
     ELSE Leftmost(At, s, lt + 1)

\* a matcher that stops at the end of the opening tag
OpeningTagAt(s, p) ==
  IF /\ CharAt(s, p) = "<"
     /\ CharAt(s, p + 1) \in Upper
     /\ NextGt(s, p + 2) <= Len(s)
  THEN [start |-> p, end |-> NextGt(s, p + 2)]
  ELSE NoMatch

MatchOpeningTag(s) == Leftmost(OpeningTagAt, s, 1)

\* cleanCode.match(/<([A-Z][a-zA-Z0-9]*)[^>]*>[\s\S]*?<\/\1>/)
MatchElement(s) == Leftmost(ElementAt, s, 1)

\* /<([A-Z][a-zA-Z0-9]*)[^>]*\/>/ tried at index p
SelfClosingAt(s, p) ==
  LET q == NextGt(s, p + 2)
  IN IF /\ CharAt(s, p) = "<"
        /\ CharAt(s, p + 1) \in Upper
        /\ q <= Len(s)
        /\ q - 1 >= p + 2
        /\ CharAt(s, q - 1) = "/"
     THEN [start |-> p, end |-> q]
     ELSE NoMatch

MatchSelfClosing(s) == Leftmost(SelfClosingAt, s, 1)

\* /<([A-Z][a-zA-Z0-9]*)[^>]*>[\s\S]*$/ tried at index p
ComponentToEndAt(s, p) ==
  IF /\ CharAt(s, p) = "<"
     /\ CharAt(s, p + 1) \in Upper
     /\ NextGt(s, p + 2) <= Len(s)
  THEN [start |-> p, end |-> Len(s)]
  ELSE NoMatch

\* a matcher that finds no component
MatchNoComponent(s) == NoMatch

MatchComponentToEnd(s) == Leftmost(ComponentToEndAt, s, 1)

MetadataNames ==
  {"anthropic_info", "thinking", "budget", "usage", "system", "context",
   "response", "metadata", "internal"}

LowerOrUnderscore == Lower \cup {"_"}

\* llmMetadataPattern tried at index p: its three alternatives
MetadataAt(s, p) ==
  /\ CharAt(s, p) = "<"
  /\ \/ \E name \in MetadataNames :
          /\ OccursAt(s, p + 1, name)
          /\ NextGt(s, p + 1 + Len(name)) <= Len(s)
     \/ LET r == SkipWhile(s, p + 2, LowerOrUnderscore)
        IN /\ CharAt(s, p + 1) \in Lower
           /\ CharAt(s, r) = ":"
           /\ r + 1 <= Len(s)
           /\ CharAt(s, r + 1) # ">"
           /\ NextGt(s, r + 1) <= Len(s)
     \/ LET b == IF CharAt(s, p + 1) = "/" THEN p + 2 ELSE p + 1
            r == SkipWhile(s, b, LowerOrUnderscore)
        IN r > b /\ CharAt(s, r) = ">"

\* cleanCode.match(llmMetadataPattern)
HasMetadata(s) == \E p \in 1..Len(s) : MetadataAt(s, p)

\* cleanCode.replace(/^#+\s+[^\n]*\n*/gm, ''), from index i on
RECURSIVE RemoveHeadersFrom(_, _)
RemoveHeadersFrom(s, i) ==
  IF i > Len(s) THEN ""
  ELSE LET h == SkipWhile(s, i, {"#"})
           w == SkipWhile(s, h, Space)
           e == SkipWhile(s, SkipUntil(s, w, {"\n"}), {"\n"})
       IN IF /\ (i = 1 \/ CharAt(s, i - 1) = "\n")
             /\ h > i
             /\ w > h
          THEN RemoveHeadersFrom(s, e)
          ELSE SubSeq(s, i, i) \o RemoveHeadersFrom(s, i + 1)

RemoveHeaders(s) == IF Includes(s, "#") THEN RemoveHeadersFrom(s, 1) ELSE s

\* the backquote character, written "~" here: a string of this notation
\* cannot hold a backquote, and no text of the model uses "~" otherwise
Backquote == "~"
\* the three backquotes that open or close a markdown code block
Fence == Backquote \o Backquote \o Backquote

\* cleanCode.replace(/^[^<B]*(?=BBB)/s, ''), B the backquote
RemoveTextBeforeFence(s) ==
  LET r == SkipUntil(s, 1, {"<", Backquote})
  IN IF OccursAt(s, r, Fence) THEN From(s, r) ELSE s

\* (?:jsx|tsx|javascript|js|typescript|ts|html|react), in this order
FenceLanguages ==
  <<"jsx", "tsx", "javascript", "js", "typescript", "ts", "html", "react">>

\* the index after the fence, the optional language and the optional newline
AfterFenceOpen(s, b) ==
  LET hits == {k \in DOMAIN FenceLanguages : OccursAt(s, b + 3, FenceLanguages[k])}
      l == IF hits = {} THEN b + 3 ELSE b + 3 + Len(FenceLanguages[Min(hits)])
  IN IF CharAt(s, l) = "\n" THEN l + 1 ELSE l

\* the capture of /BBB(?:jsx|...)?\n?([\s\S]*?)BBB/, as a match of s
MatchCodeBlock(s) ==
  LET b == IndexOf(s, Fence)
      c == IF b = 0 THEN 0 ELSE IndexOfFrom(s, Fence, AfterFenceOpen(s, b))
  IN IF b = 0 \/ c = 0 THEN NoMatch
     ELSE [start |-> AfterFenceOpen(s, b), end |-> c - 1]

\* the fallback for an unclosed code block:
\* .replace(/^BBB(?:jsx|...)?\n?/, '').replace(/\n?BBB$/, '')
StripUnclosedFence(s) ==
  LET a == From(s, AfterFenceOpen(s, 1))
      b == IF EndsWith(a, ("\n" \o Fence)) THEN SubSeq(a, 1, Len(a) - 4)
           ELSE IF EndsWith(a, Fence) THEN SubSeq(a, 1, Len(a) - 3)
           ELSE a
  IN b

\* the tail \)?\s*,?\s*\} (withComma) or \)?\s*\} of the render and children
\* patterns, tried at index e
TailAfterParen(s, j, withComma) ==
  LET w1 == SkipWhile(s, j, Space)
      w2 == IF withComma /\ CharAt(s, w1) = ","
            THEN SkipWhile(s, w1 + 1, Space) ELSE w1
  IN CharAt(s, w2) = "}"

TailAt(s, e, withComma) ==
  \/ CharAt(s, e) = ")" /\ TailAfterParen(s, e + 1, withComma)
  \/ TailAfterParen(s, e, withComma)

\* the lazy capture ([\s\S]*?) from index cs: it ends before the first index
\* at which the tail matches; NoMatch if the tail matches nowhere
RECURSIVE LazyCapture(_, _, _, _)
LazyCapture(s, cs, e, withComma) ==
  IF e > Len(s) THEN NoMatch
  ELSE IF TailAt(s, e, withComma) THEN [start |-> cs, end |-> e - 1]
  ELSE LazyCapture(s, cs, e + 1, withComma)

\* the index after \s*\(? from index i
AfterOpenParen(s, i) ==
  LET w == SkipWhile(s, i, Space)
  IN IF CharAt(s, w) = "(" THEN w + 1 ELSE w

\* the capture of /render:\s*\(\)\s*=>\s*\(?([\s\S]*?)\)?\s*,?\s*\}/
RECURSIVE MatchRenderFrom(_, _)
MatchRenderFrom(s, i) ==
  LET a == IndexOfFrom(s, "render:", i)
      w1 == SkipWhile(s, a + 7, Space)
      w2 == SkipWhile(s, w1 + 2, Space)
      cs == AfterOpenParen(s, w2 + 2)
  IN IF a = 0 THEN NoMatch
     ELSE IF /\ OccursAt(s, w1, "()")
             /\ OccursAt(s, w2, "=>")
             /\ Matched(LazyCapture(s, cs, cs, TRUE))
     THEN LazyCapture(s, cs, cs, TRUE)
     ELSE MatchRenderFrom(s, a + 1)

MatchRender(s) == MatchRenderFrom(s, 1)

\* the capture of /children:\s*\(?([\s\S]*?)\)?\s*\}/
RECURSIVE MatchChildrenFrom(_, _)
MatchChildrenFrom(s, i) ==
  LET a == IndexOfFrom(s, "children:", i)
      cs == AfterOpenParen(s, a + 9)
  IN IF a = 0 THEN NoMatch
     ELSE IF Matched(LazyCapture(s, cs, cs, FALSE))
     THEN LazyCapture(s, cs, cs, FALSE)
     ELSE MatchChildrenFrom(s, a + 1)

MatchChildren(s) == MatchChildrenFrom(s, 1)

\* jsx.endsWith(')') && !jsx.includes('(') ? jsx.slice(0, -1) : jsx
DropTrailingParen(jsx) ==
  IF EndsWith(jsx, ")") /\ ~Includes(jsx, "(")
  THEN SubSeq(jsx, 1, Len(jsx) - 1) ELSE jsx

----------------------------------------------------------------------------
(* findJSXEnd                                                              *)

\* trimmed.match(/<\/([A-Z][a-zA-Z0-9]*)>\s*$/): the name, "" if no match
ClosingTagName(trimmed) ==
  LET n == Len(trimmed)
      b == SkipBack(trimmed, n - 1, AlphaNum)
  IN IF /\ CharAt(trimmed, n) = ">"
        /\ b < n - 1
        /\ CharAt(trimmed, b + 1) \in Upper
        /\ OccursAt(trimmed, b - 1, "</")
     THEN SubSeq(trimmed, b + 1, n - 1)
     ELSE ""

\* trimmed.match(/^<([A-Z][a-zA-Z0-9]*)/): the name, "" if no match
FirstTagName(trimmed) ==
  IF CharAt(trimmed, 1) = "<" /\ CharAt(trimmed, 2) \in Upper
  THEN SubSeq(trimmed, 2, SkipWhile(trimmed, 3, AlphaNum) - 1)
  ELSE ""

\* the reverse test: a final closing tag that does not name the first tag
LooksCompleteOnMismatch(src) ==
  /\ ClosingTagName(Trim(src)) # ""
  /\ FirstTagName(Trim(src)) # ClosingTagName(Trim(src))

\* the code looks like complete JSX: findJSXEnd returns code.length at once
LooksComplete(src) ==
  /\ ClosingTagName(Trim(src)) # ""
  /\ FirstTagName(Trim(src)) = ClosingTagName(Trim(src))

\* the locals of the scanning loop; i and lastTagEnd are JavaScript offsets
ScanStart ==
  [i |-> 0, depth |-> 0, inTag |-> FALSE, inString |-> FALSE,
   stringChar |-> "", lastTagEnd |-> -1, inJsxExpr |-> 0, found |-> FALSE]

Quotes == {"\"", "'", Backquote}

\* an iteration that opens a string on a quote and also steps over the
\* character after the quote
ScanStepSkipsAfterQuote(src, sc) ==
  IF CharAt(src, sc.i + 1) \in Quotes /\ ~sc.inString
  THEN [sc EXCEPT !.inString = TRUE, !.stringChar = CharAt(src, sc.i + 1),
                  !.i = @ + 2]
  ELSE [sc EXCEPT !.i = @ + 1,
                  !.inString = @ /\ CharAt(src, sc.i + 1) # sc.stringChar]

\* one iteration of while (i < code.length); found is set when the loop
\* returns lastTagEnd from inside
ScanStep(src, sc) ==
  LET i == sc.i
      char == CharAt(src, i + 1)
      expr == IF ~sc.inString /\ ~sc.inTag
              THEN (IF char = "{" THEN sc.inJsxExpr + 1
                    ELSE IF char = "}" THEN sc.inJsxExpr - 1
                    ELSE sc.inJsxExpr)
              ELSE sc.inJsxExpr
      opens == ~sc.inString /\ char \in Quotes
      closes == sc.inString /\ char = sc.stringChar /\ CharAt(src, i) # "\\"
      inStr == IF opens THEN TRUE ELSE IF closes THEN FALSE ELSE sc.inString
      strCh == IF opens THEN char ELSE sc.stringChar
      tags == ~inStr /\ expr = 0
      lt == tags /\ char = "<"
      gt == tags /\ char = ">" /\ sc.inTag
      isClose == lt /\ CharAt(src, i + 2) = "/"
      isOpen == lt /\ ~isClose /\ CharAt(src, i + 2) \in Alpha
      down == gt /\ (\/ CharAt(src, i) = "/"
                     \/ Includes(Slice(src, i - 9, i), "</"))
      d == IF isOpen THEN sc.depth + 1
           ELSE IF down THEN sc.depth - 1
           ELSE sc.depth
  IN [i |-> IF gt /\ d = 0 THEN i ELSE i + 1,
      depth |-> d,
      inTag |-> IF isClose \/ isOpen THEN TRUE
                ELSE IF gt THEN FALSE
                ELSE sc.inTag,
      inString |-> inStr,
      stringChar |-> strCh,
      lastTagEnd |-> IF gt THEN i + 1 ELSE sc.lastTagEnd,
      inJsxExpr |-> expr,
      found |-> gt /\ d = 0]

\* the loop has ended: by the return inside it, or at the end of the text
ScanEnded(src, sc) == sc.found \/ sc.i >= Len(src)

\* the value findJSXEnd returns when the loop has ended
ScanResult(src, sc) ==
  IF sc.found THEN sc.lastTagEnd
  ELSE IF sc.lastTagEnd > 0 THEN sc.lastTagEnd
  ELSE Len(src)

RECURSIVE ScanFrom(_, _)
ScanFrom(src, sc) ==
  IF ScanEnded(src, sc) THEN sc ELSE ScanFrom(src, ScanStep(src, sc))

findJSXEnd(src) ==
  IF LooksComplete(src) THEN Len(src)
  ELSE ScanResult(src, ScanFrom(src, ScanStart))

----------------------------------------------------------------------------
(* extractJSX                                                              *)

MaxParts == 3

\* the pieces the responses given to extractJSX are made of
ResponseParts ==
  << "<!DOCTYPE html>", "<html>", "<thinking>", "<div class=\"x\">",
     "<Card>Hi</Card>", "<Card><p>Hi</p></Card>", "<Card>", "<Badge />",
     "<Btn onClick={() => go()}>Go</Btn>", " Done",
     Fence \o "jsx\n", "\n" \o Fence, "# Title\n",
     "render: () => (", "children: (", ")}" >>

Responses ==
  {Concat([k \in DOMAIN parts |-> ResponseParts[parts[k]]]) :
     parts \in SeqsUpTo(DOMAIN ResponseParts, MaxParts)}

ReturnValue(v) == [kind |-> "returned", value |-> v]
ThrowError(msg) == [kind |-> "thrown", value |-> msg]

\* no call of parseJSXElement is in progress
ParseIdle ==
  /\ pc = "idle"
  /\ inputLex = <<>>
  /\ tokens = <<>>
  /\ tokenIdx = 1
  /\ LocalsAtEntry
  /\ calls = 0
  /\ results = NoResults

InitExtract ==
  /\ xpc = "entry"
  /\ code \in Responses
  /\ cleanCode = ""
  /\ outcome = NoOutcome
  /\ ParseIdle
  /\ ScanIdle
  /\ AppIdle
  /\ RestIdle

\* let cleanCode = code.trim()
Enter ==
  /\ xpc = "entry"
  /\ cleanCode' = Trim(code)
  /\ xpc' = "step0"
  /\ UNCHANGED <<code, outcome, notExtractVars>>

\* Step 0: an HTML document is replaced by the first component element
\* inside it, and rejected if it holds none
Step0 ==
  /\ xpc = "step0"
  /\ IF IsHtmlDocument(cleanCode)
     THEN IF Matched(MatchElement(cleanCode))
          THEN /\ cleanCode' = MatchText(cleanCode, MatchElement(cleanCode))
               /\ xpc' = "step0_5"
               /\ UNCHANGED outcome
          ELSE /\ outcome' = ThrowError("HTML document instead of JSX")
               /\ xpc' = "done"
               /\ UNCHANGED cleanCode
     ELSE /\ xpc' = "step0_5"
          /\ UNCHANGED <<cleanCode, outcome>>
  /\ UNCHANGED <<code, notExtractVars>>

\* Step 0.5: text with internal metadata tags is replaced by the first
\* component element in it, paired or else self-closing, and rejected if it
\* holds none
Step0_5 ==
  /\ xpc = "step0_5"
  /\ IF HasMetadata(cleanCode)
     THEN IF Matched(MatchElement(cleanCode))
          THEN /\ cleanCode' = MatchText(cleanCode, MatchElement(cleanCode))
               /\ xpc' = "step1"
               /\ UNCHANGED outcome
          ELSE IF Matched(MatchSelfClosing(cleanCode))
          THEN /\ cleanCode' = MatchText(cleanCode, MatchSelfClosing(cleanCode))
               /\ xpc' = "step1"
               /\ UNCHANGED outcome
          ELSE /\ outcome' = ThrowError("internal metadata instead of JSX")
               /\ xpc' = "done"
               /\ UNCHANGED cleanCode
     ELSE /\ xpc' = "step1"
          /\ UNCHANGED <<cleanCode, outcome>>
  /\ UNCHANGED <<code, notExtractVars>>

\* Step 1: remove markdown headers
Step1 ==
  /\ xpc = "step1"
  /\ cleanCode' = RemoveHeaders(cleanCode)
  /\ xpc' = "step2"
  /\ UNCHANGED <<code, outcome, notExtractVars>>

\* Step 2: remove the text before a code block
Step2 ==
  /\ xpc = "step2"
  /\ cleanCode' = RemoveTextBeforeFence(cleanCode)
  /\ xpc' = "step3"
  /\ UNCHANGED <<code, outcome, notExtractVars>>

\* Step 3: take the content of the first code block; if that is an HTML
\* document, return extractJSX(cleanCode), a call that starts over with it
Step3 ==
  /\ xpc = "step3"
  /\ LET block == MatchCodeBlock(cleanCode)
         inner == Trim(MatchText(cleanCode, block))
     IN IF Matched(block)
        THEN /\ cleanCode' = inner
             /\ IF IsHtmlDocument(inner)
                THEN code' = inner /\ xpc' = "entry"
                ELSE xpc' = "step4" /\ UNCHANGED code
        ELSE /\ cleanCode' = IF StartsWith(cleanCode, Fence)
                             THEN StripUnclosedFence(cleanCode)
                             ELSE cleanCode
             /\ xpc' = "step4"
             /\ UNCHANGED code
  /\ UNCHANGED <<outcome, notExtractVars>>

\* Step 4: remove the text before the first tag, if that tag is a component
Step4 ==
  /\ xpc = "step4"
  /\ LET firstTagIndex == IndexOf(cleanCode, "<")
     IN cleanCode' = IF /\ firstTagIndex > 1
                        /\ CharAt(cleanCode, firstTagIndex + 1) \in Upper
                     THEN From(cleanCode, firstTagIndex)
                     ELSE cleanCode
  /\ xpc' = "step4_5"
  /\ UNCHANGED <<code, outcome, notExtractVars>>

\* a test for a leading lowercase tag that never answers yes
NoLowerTagTest(s) == FALSE

\* /^<[a-z]/
StartsLowerTag(s) == CharAt(s, 1) = "<" /\ CharAt(s, 2) \in Lower
\* /^<[A-Z]/
StartsComponent(s) == CharAt(s, 1) = "<" /\ CharAt(s, 2) \in Upper

\* Step 4.5: skip leading lowercase HTML tags up to the first component
Step4_5 ==
  /\ xpc = "step4_5"
  /\ cleanCode' = IF /\ StartsLowerTag(cleanCode)
                     /\ Matched(MatchComponentToEnd(cleanCode))
                  THEN MatchText(cleanCode, MatchComponentToEnd(cleanCode))
                  ELSE cleanCode
  /\ xpc' = "step5"
  /\ UNCHANGED <<code, outcome, notExtractVars>>

\* Step 5: cut the text after the end of the JSX; then cleanCode.trim()
Step5 ==
  /\ xpc = "step5"
  /\ LET jsxEndIndex == findJSXEnd(cleanCode)
     IN cleanCode' =
          Trim(IF /\ StartsComponent(cleanCode)
                  /\ jsxEndIndex > 0
                  /\ jsxEndIndex < Len(cleanCode)
               THEN Trim(SubSeq(cleanCode, 1, jsxEndIndex))
               ELSE cleanCode)
  /\ xpc' = "finish"
  /\ UNCHANGED <<code, outcome, notExtractVars>>

\* the returns and the throw that end extractJSX, in the order of the code

\* Try to extract JSX from a render function
ReturnRender ==
  /\ xpc = "finish"
  /\ Matched(MatchRender(cleanCode))
  /\ outcome' = ReturnValue(DropTrailingParen(
                  Trim(MatchText(cleanCode, MatchRender(cleanCode)))))
  /\ xpc' = "done"
  /\ UNCHANGED <<code, cleanCode, notExtractVars>>

\* Try to extract from args.children
ReturnChildren ==
  /\ xpc = "finish"
  /\ ~Matched(MatchRender(cleanCode))
  /\ Matched(MatchChildren(cleanCode))
  /\ outcome' = ReturnValue(DropTrailingParen(
                  Trim(MatchText(cleanCode, MatchChildren(cleanCode)))))
  /\ xpc' = "done"
  /\ UNCHANGED <<code, cleanCode, notExtractVars>>

NoObjectPattern(s) == ~Matched(MatchRender(s)) /\ ~Matched(MatchChildren(s))

\* If it looks like a JSX component (starts with <Uppercase), use it directly
ReturnComponent ==
  /\ xpc = "finish"
  /\ NoObjectPattern(cleanCode)
  /\ StartsComponent(cleanCode)
  /\ outcome' = ReturnValue(cleanCode)
  /\ xpc' = "done"
  /\ UNCHANGED <<code, cleanCode, notExtractVars>>

\* Try to extract any JSX component from the code
ReturnJsxMatch ==
  /\ xpc = "finish"
  /\ NoObjectPattern(cleanCode)
  /\ ~StartsComponent(cleanCode)
  /\ Matched(MatchComponentToEnd(cleanCode))
  /\ outcome' = ReturnValue(MatchText(cleanCode, MatchComponentToEnd(cleanCode)))
  /\ xpc' = "done"
  /\ UNCHANGED <<code, cleanCode, notExtractVars>>

\* If we still have lowercase tags, it's not valid JSX
ThrowLowercase ==
  /\ xpc = "finish"
  /\ NoObjectPattern(cleanCode)
  /\ ~StartsComponent(cleanCode)
  /\ ~Matched(MatchComponentToEnd(cleanCode))
  /\ StartsLowerTag(cleanCode)
  /\ outcome' = ThrowError("HTML elements instead of JSX")
  /\ xpc' = "done"
  /\ UNCHANGED <<code, cleanCode, notExtractVars>>

\* Return as-is and let Babel fail if it's not valid
ReturnAsIs ==
  /\ xpc = "finish"
  /\ NoObjectPattern(cleanCode)
  /\ ~StartsComponent(cleanCode)
  /\ ~Matched(MatchComponentToEnd(cleanCode))
  /\ ~StartsLowerTag(cleanCode)
  /\ outcome' = ReturnValue(cleanCode)
  /\ xpc' = "done"
  /\ UNCHANGED <<code, cleanCode, notExtractVars>>

NextExtract ==
  \/ Enter
  \/ Step0
  \/ Step0_5
  \/ Step1
  \/ Step2
  \/ Step3
  \/ Step4
  \/ Step4_5
  \/ Step5
  \/ ReturnRender
  \/ ReturnChildren
  \/ ReturnComponent
  \/ ReturnJsxMatch
  \/ ThrowLowercase
  \/ ReturnAsIs

\* one call of extractJSX on one response
SpecExtract == InitExtract /\ [][NextExtract]_vars

----------------------------------------------------------------------------
(* findJSXEnd, one loop iteration at a time                                *)

MaxScanParts == 3

\* the pieces of the texts given to findJSXEnd
ScanParts ==
  << "<Btn onClick={() => go()}>", "</Btn>", "<Card title=\"a>b\">",
     "</Card>", "<Badge />", "Go", " Done", "<Text>Don't</Text>",
     "<Card><B></B><B>Go</B></Card>" >>

\* step 5 of extractJSX calls findJSXEnd on text that starts with a component
ScanTexts ==
  {s \in {Concat([k \in DOMAIN parts |-> ScanParts[parts[k]]]) :
            parts \in SeqsUpTo(DOMAIN ScanParts, MaxScanParts)} :
     StartsComponent(s)}

InitScan ==
  /\ scanPc = "call"
  /\ scanCode \in ScanTexts
  /\ scan = <<>>
  /\ scanResult = 0
  /\ ParseIdle
  /\ ExtractIdle
  /\ AppIdle
  /\ RestIdle

\* the code ends with the closing tag of its first tag: return code.length
ScanReturnComplete ==
  /\ scanPc = "call"
  /\ LooksComplete(scanCode)
  /\ scanResult' = Len(scanCode)
  /\ scanPc' = "returned"
  /\ UNCHANGED <<scanCode, scan, notScanVars>>

\* let depth = 0; let i = 0; ...
ScanBegin ==
  /\ scanPc = "call"
  /\ ~LooksComplete(scanCode)
  /\ scan' = ScanStart
  /\ scanPc' = "loop"
  /\ UNCHANGED <<scanCode, scanResult, notScanVars>>

\* one iteration of the loop
ScanChar ==
  /\ scanPc = "loop"
  /\ ~ScanEnded(scanCode, scan)
  /\ scan' = ScanStep(scanCode, scan)
  /\ UNCHANGED <<scanPc, scanCode, scanResult, notScanVars>>

\* return lastTagEnd from the loop, or after it
\* lastTagEnd > 0 ? lastTagEnd : code.length
ScanReturn ==
  /\ scanPc = "loop"
  /\ ScanEnded(scanCode, scan)
  /\ scanResult' = ScanResult(scanCode, scan)
  /\ scanPc' = "returned"
  /\ UNCHANGED <<scanCode, scan, notScanVars>>

NextScan ==
  \/ ScanReturnComplete
  \/ ScanBegin
  \/ ScanChar
  \/ ScanReturn

SpecScan == InitScan /\ [][NextScan]_vars

\* What a JSX lexer knows before it reads the character at index x: whether
\* it is inside a tag, how many attribute braces are open, and the quote of
\* the string literal it is in
RECURSIVE LexerBefore(_, _, _, _)
LexerBefore(s, x, k, st) ==
  IF k >= x THEN st
  ELSE LET c == CharAt(s, k)
           next ==
             IF st.quote # ""
             THEN (IF c = st.quote THEN [st EXCEPT !.quote = ""] ELSE st)
             ELSE IF st.inTag
             THEN (IF c \in Quotes THEN [st EXCEPT !.quote = c]
                   ELSE IF c = "{" THEN [st EXCEPT !.braces = @ + 1]
                   ELSE IF c = "}" THEN [st EXCEPT !.braces = @ - 1]
                   ELSE IF c = ">" /\ st.braces = 0 THEN [st EXCEPT !.inTag = FALSE]
                   ELSE st)
             ELSE IF c = "<" /\ CharAt(s, k + 1) \in Alpha \cup {"/"}
             THEN [st EXCEPT !.inTag = TRUE]
             ELSE st
       IN LexerBefore(s, x, k + 1, next)

\* the character at index x lies inside an attribute's brace expression or
\* string literal
InsideAttribute(s, x) ==
  LET st == LexerBefore(s, x, 1, [inTag |-> FALSE, braces |-> 0, quote |-> ""])
  IN st.inTag /\ (st.braces > 0 \/ st.quote # "")

\* C10: while findJSXEnd scans, the ">" it takes as the end of a tag never
\* lies inside an attribute's brace expression or string literal, and the
\* index it returns never cuts the text inside an attribute.
C10_TagEndNeverInsideAttribute ==
  /\ (scanPc = "loop" /\ scan.lastTagEnd > 0)
       => ~InsideAttribute(scanCode, scan.lastTagEnd)
  /\ (scanPc = "returned" /\ scanResult < Len(scanCode))
       => ~InsideAttribute(scanCode, scanResult + 1)

----------------------------------------------------------------------------
(* Claims about extractJSX                                                 *)

\* s holds a component tag: "<", an upper-case letter, and a ">" after it
HoldsComponentTag(s) ==
  \E p \in 1..Len(s) :
    /\ CharAt(s, p) = "<"
    /\ CharAt(s, p + 1) \in Upper
    /\ \E q \in (p + 2)..Len(s) : CharAt(s, q) = ">"

\* the name prefixes of the component tag at index p of s
NamesAt(s, p) ==
  {SubSeq(s, p + 1, p + k) : k \in 1..(SkipWhile(s, p + 2, AlphaNum) - p - 1)}

\* s holds a paired component element <Name ...> ... </Name>
HoldsPairedElement(s) ==
  \E p \in 1..Len(s) :
    /\ CharAt(s, p) = "<"
    /\ CharAt(s, p + 1) \in Upper
    /\ \E name \in NamesAt(s, p) :
         \E c \in (p + 2)..Len(s) :
           /\ OccursAt(s, c, "</" \o name \o ">")
           /\ \E q \in (p + 2)..(c - 1) : CharAt(s, q) = ">"

\* s holds a self-closing component tag <Name ... />
HoldsSelfClosing(s) ==
  \E p \in 1..Len(s) :
    /\ CharAt(s, p) = "<"
    /\ CharAt(s, p + 1) \in Upper
    /\ \E q \in (p + 3)..Len(s) :
         /\ OccursAt(s, q - 1, "/>")
         /\ \A r \in (p + 2)..(q - 1) : CharAt(s, r) # ">"

\* s is one component element: it starts with a component tag and ends with
\* that tag's closing tag, or with "/>"
IsComponentElement(s) ==
  /\ StartsComponent(s)
  /\ \/ \E name \in NamesAt(s, 1) : EndsWith(s, "</" \o name \o ">")
     \/ EndsWith(s, "/>")

HasReturned == xpc = "done" /\ outcome.kind = "returned"
HasThrown == xpc = "done" /\ outcome.kind = "thrown"

\* C8 as claimed: extractJSX throws or returns a trimmed string that begins
\* with "<", never an empty string or text that does not start with a tag.
C8_ReturnsTagOrThrows ==
  HasReturned
    => /\ StartsWith(outcome.value, "<")
       /\ Trim(outcome.value) = outcome.value

\* C8 amended: extractJSX ends by a return or a throw. What it returns is
\* trimmed and begins with "<" when the cleaned text holds a component tag
\* and no render: or children: property; cleaned text without a component
\* tag that does not start with a lowercase tag is returned as it is, the
\* empty string and plain prose included; a response without any "<" is
\* never rejected, and an empty response yields the empty string.
C8_ReturnsTagOnlyWhenComponentFound ==
  xpc = "done"
    => /\ outcome.kind \in {"returned", "thrown"}
       /\ outcome.kind = "returned"
            => \/ /\ StartsWith(outcome.value, "<")
                  /\ Trim(outcome.value) = outcome.value
               \/ Includes(cleanCode, "render:")
               \/ Includes(cleanCode, "children:")
               \/ /\ outcome.value = cleanCode
                  /\ Trim(cleanCode) = cleanCode
                  /\ ~HoldsComponentTag(cleanCode)
       /\ ~Includes(code, "<") => outcome.kind = "returned"
       /\ Trim(code) = "" => outcome = ReturnValue("")

\* prose without a tag comes back as it is
C8_Witness ==
  /\ xpc = "done"
  /\ code = " Done Done"
  /\ outcome = ReturnValue("Done Done")

\* the current call was given an HTML document or text with metadata tags
ShellOrMetadata == IsHtmlDocument(Trim(code)) \/ HasMetadata(Trim(code))

\* C9 as claimed: for an HTML document or text with a metadata tag, what is
\* returned holds no HTML or metadata markup.
C9_MarkupNeverReturned ==
  (HasReturned /\ ShellOrMetadata)
    => /\ ~HasMetadata(outcome.value)
       /\ ~IsHtmlDocument(outcome.value)

\* C9 amended: for an HTML document or text with a metadata tag, steps 0 and
\* 0.5 go on only with one component element taken from the text (paired,
\* or self-closing when the text is not an HTML document), and throw when
\* the text holds none; what surrounds the element is dropped, lowercase
\* tags inside the element stay part of it.
C9_ExtractionOrFail ==
  ShellOrMetadata
    => /\ xpc = "step1"
            => /\ IsComponentElement(cleanCode)
               /\ Includes(Trim(code), cleanCode)
       /\ xpc \notin {"entry", "step0", "step0_5"}
            => IF \/ HoldsPairedElement(Trim(code))
                  \/ /\ HoldsSelfClosing(Trim(code))
                     /\ ~IsHtmlDocument(Trim(code))
               THEN ~(HasThrown /\ outcome.value # "HTML elements instead of JSX")
               ELSE HasThrown

\* an HTML document whose component element holds a lowercase tag
C9_Witness ==
  /\ xpc = "step1"
  /\ code = "<html><Card><p>Hi</p></Card> Done"
  /\ cleanCode = "<Card><p>Hi</p></Card>"

----------------------------------------------------------------------------
(* The chat App: validateJSXResponse, generateComponent, sendMessage       *)

\* (s.match(/c/g) || []).length
RECURSIVE CountChar(_, _)
CountChar(s, c) ==
  IF s = "" THEN 0
  ELSE (IF SubSeq(s, 1, 1) = c THEN 1 ELSE 0) + CountChar(From(s, 2), c)

\* Babel.transform of `(function() { return (trimmed); })()` with the react
\* preset, for the responses of this model: it accepts text that is one
\* well-formed JSX element and throws a syntax error for anything else.
\* The operators below give the index after a construct, 0 if malformed.
RECURSIVE BraceEnd(_, _, _)
BraceEnd(s, i, depth) ==
  IF i > Len(s) THEN 0
  ELSE IF CharAt(s, i) = "{" THEN BraceEnd(s, i + 1, depth + 1)
  ELSE IF CharAt(s, i) = "}"
  THEN (IF depth = 1 THEN i + 1 ELSE BraceEnd(s, i + 1, depth - 1))
  ELSE BraceEnd(s, i + 1, depth)

RECURSIVE JsxAttributesEnd(_, _)
JsxAttributesEnd(s, i) ==
  LET w == SkipWhile(s, i, Space)
      n == SkipWhile(s, w, AlphaNum \cup {"-"})
      v == CharAt(s, n + 1)
      q == IndexOfFrom(s, v, n + 2)
      b == BraceEnd(s, n + 1, 0)
  IN IF CharAt(s, w) = ">" \/ OccursAt(s, w, "/>") THEN w
     ELSE IF CharAt(s, w) \notin Alpha THEN 0
     ELSE IF CharAt(s, n) # "=" THEN JsxAttributesEnd(s, n)
     ELSE IF v \in {"\"", "'"} THEN (IF q = 0 THEN 0 ELSE JsxAttributesEnd(s, q + 1))
     ELSE IF v = "{" THEN (IF b = 0 THEN 0 ELSE JsxAttributesEnd(s, b))
     ELSE 0

RECURSIVE JsxElementEnd(_, _)
RECURSIVE JsxChildrenEnd(_, _, _)
JsxElementEnd(s, i) ==
  IF ~(CharAt(s, i) = "<" /\ CharAt(s, i + 1) \in Alpha) THEN 0
  ELSE LET n == SkipWhile(s, i + 1, TagNameChar)
           a == JsxAttributesEnd(s, n)
       IN IF a = 0 THEN 0
          ELSE IF OccursAt(s, a, "/>") THEN a + 2
          ELSE JsxChildrenEnd(s, a + 1, SubSeq(s, i + 1, n - 1))

JsxChildrenEnd(s, i, name) ==
  IF i > Len(s) THEN 0
  ELSE IF OccursAt(s, i, "</")
  THEN (IF OccursAt(s, i + 2, name \o ">") THEN i + 3 + Len(name) ELSE 0)
  ELSE IF CharAt(s, i) = "<"
  THEN (IF JsxElementEnd(s, i) = 0 THEN 0
        ELSE JsxChildrenEnd(s, JsxElementEnd(s, i), name))
  ELSE IF CharAt(s, i) = "{"
  THEN (IF BraceEnd(s, i, 0) = 0 THEN 0
        ELSE JsxChildrenEnd(s, BraceEnd(s, i, 0), name))
  ELSE IF CharAt(s, i) \in {"}", ">"} THEN 0
  ELSE JsxChildrenEnd(s, i + 1, name)

BabelAccepts(trimmed) == JsxElementEnd(trimmed, 1) = Len(trimmed) + 1

Invalid(msg) == [isValid |-> FALSE, error |-> msg]

metadataTags ==
  {"<budget>", "<usage>", "<thinking>", "<reflection>", "<output>", "<result>"}

\* a validator that only looks at how the response starts
validateStartOnly(response) ==
  IF Trim(response) = "" THEN Invalid("Empty response from LLM")
  ELSE IF ~StartsWith(Trim(response), "<")
  THEN Invalid("Response does not start with JSX.")
  ELSE [isValid |-> TRUE, error |-> ""]

validateJSXResponse(response) ==
  LET trimmed == Trim(response)
      last10Chars == Slice(trimmed, Len(trimmed) - 9, Len(trimmed))
      openBraces == CountChar(trimmed, "{")
      closeBraces == CountChar(trimmed, "}")
      openParens == CountChar(trimmed, "(")
      closeParens == CountChar(trimmed, ")")
  IN IF trimmed = "" THEN Invalid("Empty response from LLM")
     ELSE IF \E tag \in metadataTags : Includes(ToLowerCase(trimmed), tag)
     THEN Invalid("LLM returned internal metadata instead of JSX components. Please try again.")
     ELSE IF ~StartsWith(trimmed, "<")
     THEN Invalid("Response does not start with JSX. LLM may have returned explanatory text.")
     ELSE IF \/ StartsWith(trimmed, Fence)
             \/ Includes(trimmed, Fence \o "jsx")
             \/ Includes(trimmed, Fence \o "tsx")
     THEN Invalid("Response contains markdown code fences")
     ELSE IF Includes(last10Chars, ">);") \/ Includes(last10Chars, ">\");")
     THEN Invalid("JSX appears to be truncated (ends with >); pattern). LLM output was cut off.")
     ELSE IF CountChar(trimmed, "\"") % 2 # 0
     THEN Invalid("JSX has unclosed quotes - response appears truncated")
     ELSE IF openBraces # closeBraces
     THEN Invalid("JSX has unbalanced braces (" \o ToString(openBraces) \o " open, "
                  \o ToString(closeBraces) \o " close) - response appears truncated")
     ELSE IF openParens # closeParens
     THEN Invalid("JSX has unbalanced parentheses (" \o ToString(openParens) \o " open, "
                  \o ToString(closeParens) \o " close) - response appears truncated")
     ELSE IF ~BabelAccepts(trimmed)
     THEN Invalid("JSX syntax error: Unexpected token. LLM response may be truncated or malformed.")
     ELSE [isValid |-> TRUE, error |-> ""]

\* generateComponent: content.trim(), and for text that starts with a fence
\* .replace(/^BBB(?:jsx|tsx|javascript|js)?\n?/, '').replace(/\n?BBB$/, '')
ResponseFenceLanguages == <<"jsx", "tsx", "javascript", "js">>

CleanResponse(text) ==
  LET t == Trim(text)
      hits == {k \in DOMAIN ResponseFenceLanguages :
                 OccursAt(t, 4, ResponseFenceLanguages[k])}
      l == IF hits = {} THEN 4 ELSE 4 + Len(ResponseFenceLanguages[Min(hits)])
      a == From(t, IF CharAt(t, l) = "\n" THEN l + 1 ELSE l)
  IN IF ~StartsWith(t, Fence) THEN t
     ELSE IF EndsWith(a, "\n" \o Fence) THEN SubSeq(a, 1, Len(a) - 4)
     ELSE IF EndsWith(a, Fence) THEN SubSeq(a, 1, Len(a) - 3)
     ELSE a

\* a message of a conversation; generatedCode "" when the field is absent
UserMessage(id, text) ==
  [id |-> id, role |-> "user", content |-> text, generatedCode |-> ""]

AssistantMessage(id, text, generatedCode) ==
  [id |-> id, role |-> "assistant", content |-> text,
   generatedCode |-> generatedCode]

\* a conversation created without its first message
NewEmptyConversation(id, message) ==
  [id |-> id, title |-> Slice(message.content, 1, 40), messages |-> <<>>]

NewConversation(id, message) ==
  [id |-> id, title |-> Slice(message.content, 1, 40), messages |-> <<message>>]

\* a map that appends the message without looking at the conversation's id
AppendMessageToAll(convs, id, message) ==
  [k \in DOMAIN convs |-> [convs[k] EXCEPT !.messages = Append(@, message)]]

\* prev.map(conv => conv.id === id ? {...conv, messages: [...messages, m]} : conv)
AppendMessage(convs, id, message) ==
  [k \in DOMAIN convs |->
     IF convs[k].id = id
     THEN [convs[k] EXCEPT !.messages = Append(@, message)]
     ELSE convs[k]]

\* prev.filter(c => c.id !== id)
RECURSIVE WithoutConversation(_, _)
WithoutConversation(convs, id) ==
  IF convs = <<>> THEN <<>>
  ELSE IF Head(convs).id = id THEN WithoutConversation(Tail(convs), id)
  ELSE <<Head(convs)>> \o WithoutConversation(Tail(convs), id)

\* conversations.filter(c => c.messages.length > 0)
RECURSIVE displayConversations(_)
displayConversations(convs) ==
  IF convs = <<>> THEN <<>>
  ELSE IF Len(Head(convs).messages) > 0
  THEN <<Head(convs)>> \o displayConversations(Tail(convs))
  ELSE displayConversations(Tail(convs))

\* [...messages].reverse().find(m => m.generatedCode)?.generatedCode || null
RECURSIVE LastGeneratedCode(_)
LastGeneratedCode(messages) ==
  IF messages = <<>> THEN ""
  ELSE IF messages[Len(messages)].generatedCode # ""
  THEN messages[Len(messages)].generatedCode
  ELSE LastGeneratedCode(SubSeq(messages, 1, Len(messages) - 1))

ConversationIds(convs) == {convs[k].id : k \in DOMAIN convs}

ConversationOf(convs, id) ==
  convs[CHOOSE k \in DOMAIN convs : convs[k].id = id]

maxRetries == 2
MaxRespParts == 1
MaxSends == 1

\* pieces of LLM output; the second to the fifth stop inside an attribute,
\* the fifth with an even number of double quotes
LlmParts ==
  << "<Text size=\"sm\">Hi</Text>",
     "<Text size=\"",
     "<Text size=",
     "<Text style={{ w:",
     "<Text>say \"hi</Text><Text size=\"",
     "<thinking>",
     Fence \o "jsx\n" >>

TruncatedTails == {LlmParts[2], LlmParts[3], LlmParts[4]}

Truncated(text) == \E tail \in TruncatedTails : EndsWith(Trim(text), tail)

LlmResponses ==
  {Concat([k \in DOMAIN q |-> LlmParts[q[k]]]) :
     q \in SeqsUpTo(DOMAIN LlmParts, MaxRespParts) \ {<<>>}}

ServerErrors == {"Server Error: 500"}

Prompts == {"", " ", "Make a card"}

\* what useLocalStorage('storyui_conversations', []) finds at start-up
StoredConversations ==
  { <<>>,
    << [id |-> 1, title |-> "Old",
        messages |-> << UserMessage(2, "Old"),
                        AssistantMessage(3, "Component generated successfully.",
                                         LlmParts[1]) >>],
       [id |-> 4, title |-> "Older",
        messages |-> << UserMessage(5, "Older"),
                        AssistantMessage(6, "Component generated successfully.",
                                         "<Badge />") >>] >> }

Fulfilled(value) == [state |-> "fulfilled", value |-> value]
Rejected(message) == [state |-> "rejected", value |-> message]

InitApp ==
  /\ conversations \in StoredConversations
  /\ nextId = 1 + 3 * Len(conversations)
  /\ activeConversationId = Null
  /\ inputValue = ""
  /\ isGenerating = FALSE
  /\ previewCode = ""
  /\ apc = "idle"
  /\ conversationId = Null
  /\ attempt = 0
  /\ lastError = ""
  /\ llmContent = ""
  /\ validationResult = NoValidation
  /\ generated = NoPromise
  /\ sends = 0
  /\ ParseIdle /\ ExtractIdle /\ ScanIdle /\ RestIdle

\* an event handler or an effect can run: the App is mounted and no
\* continuation of an await is queued (the rest of sendMessage runs as a
\* microtask as soon as the promise of generateComponentWithRetry settles)
EventLoopFree == apc \in {"idle", "attempting"}

\* the initialising effect: select the first conversation that has messages
InitSelect ==
  /\ EventLoopFree
  /\ activeConversationId = Null
  /\ Len(displayConversations(conversations)) > 0
  /\ activeConversationId' = displayConversations(conversations)[1].id
  /\ previewCode' = LastGeneratedCode(displayConversations(conversations)[1].messages)
  /\ UNCHANGED <<conversations, inputValue, isGenerating, apc, conversationId,
                 attempt, lastError, llmContent, validationResult, generated,
                 sends, nextId, notAppVars>>

\* the textarea's onChange; the textarea is disabled while isGenerating
TypeInput ==
  /\ EventLoopFree
  /\ ~isGenerating
  /\ \E text \in Prompts \ {inputValue} : inputValue' = text
  /\ UNCHANGED <<conversations, activeConversationId, isGenerating, previewCode,
                 apc, conversationId, attempt, lastError, llmContent,
                 validationResult, generated, sends, nextId, notAppVars>>

startNewChat ==
  /\ EventLoopFree
  /\ activeConversationId # Null \/ previewCode # ""
  /\ activeConversationId' = Null
  /\ previewCode' = ""
  /\ UNCHANGED <<conversations, inputValue, isGenerating, apc, conversationId,
                 attempt, lastError, llmContent, validationResult, generated,
                 sends, nextId, notAppVars>>

\* the onClick of an entry of the conversation list
selectConversation ==
  /\ EventLoopFree
  /\ \E k \in DOMAIN displayConversations(conversations) :
       LET conv == displayConversations(conversations)[k]
       IN /\ activeConversationId' = conv.id
          /\ previewCode' = LastGeneratedCode(conv.messages)
  /\ UNCHANGED <<conversations, inputValue, isGenerating, apc, conversationId,
                 attempt, lastError, llmContent, validationResult, generated,
                 sends, nextId, notAppVars>>

deleteConversation ==
  /\ EventLoopFree
  /\ \E id \in ConversationIds(conversations) :
       LET remaining == displayConversations(WithoutConversation(conversations, id))
       IN /\ conversations' = WithoutConversation(conversations, id)
          /\ activeConversationId' =
               IF activeConversationId # id THEN activeConversationId
               ELSE IF Len(remaining) > 0 THEN remaining[1].id
               ELSE Null
          /\ previewCode' =
               IF activeConversationId = id /\ Len(remaining) = 0 THEN ""
               ELSE previewCode
  /\ UNCHANGED <<inputValue, isGenerating, apc, conversationId, attempt,
                 lastError, llmContent, validationResult, generated, sends,
                 nextId, notAppVars>>


\* a guard that lets blank input through
SendGuardAllowsBlank == ~isGenerating

\* if (!inputValue.trim() || isGenerating) return;
SendGuard == ~(Trim(inputValue) = "" \/ isGenerating)

\* sendMessage up to the await: the user message is stored, in a new
\* conversation when none is active, and generation starts
sendMessage ==
  /\ apc # "off"
  /\ SendGuard
  /\ sends < MaxSends
  /\ LET userMessage == UserMessage(nextId, Trim(inputValue))
     IN IF activeConversationId = Null
        THEN /\ conversations' =
                  <<NewConversation(nextId + 1, userMessage)>> \o conversations
             /\ conversationId' = nextId + 1
             /\ activeConversationId' = nextId + 1
             /\ nextId' = nextId + 2
        ELSE /\ conversations' =
                  AppendMessage(conversations, activeConversationId, userMessage)
             /\ conversationId' = activeConversationId
             /\ nextId' = nextId + 1
             /\ UNCHANGED activeConversationId
  /\ inputValue' = ""
  /\ isGenerating' = TRUE
  /\ apc' = "attempting"
  /\ attempt' = 0
  /\ lastError' = ""
  /\ llmContent' = ""
  /\ validationResult' = NoValidation
  /\ generated' = NoPromise
  /\ sends' = sends + 1
  /\ UNCHANGED <<previewCode, notAppVars>>

\* generateComponent's cleanCode and validationResult for each response
CleanedOf == [response \in LlmResponses |-> CleanResponse(response)]

ValidationOf ==
  [response \in LlmResponses |-> validateJSXResponse(CleanedOf[response])]

\* a catch block that lets the loop go round once more than maxRetries allows
FailedWithExtraTry(message) ==
  /\ lastError' = message
  /\ IF attempt <= maxRetries
     THEN /\ attempt' = attempt + 1
          /\ UNCHANGED <<apc, generated>>
     ELSE /\ generated' = Rejected(message)
          /\ apc' = "settled"
          /\ UNCHANGED attempt

\* the catch block of generateComponentWithRetry's loop, and the throw after it
Failed(message) ==
  /\ lastError' = message
  /\ IF attempt < maxRetries
     THEN /\ attempt' = attempt + 1
          /\ UNCHANGED <<apc, generated>>
     ELSE /\ generated' = Rejected(message)
          /\ apc' = "settled"
          /\ UNCHANGED attempt

\* one pass of the retry loop in which the server answers with text:
\* generateComponent cleans and validates it, and returns it or throws; when
\* the loop goes round again the locals of the call that threw are gone
Attempt ==
  /\ apc = "attempting"
  /\ \E response \in LlmResponses :
       LET result == ValidationOf[response]
       IN /\ IF result.isValid \/ attempt >= maxRetries
             THEN llmContent' = response /\ validationResult' = result
             ELSE llmContent' = "" /\ validationResult' = NoValidation
          /\ IF result.isValid
             THEN /\ generated' = Fulfilled(CleanedOf[response])
                  /\ apc' = "settled"
                  /\ UNCHANGED <<attempt, lastError>>
             ELSE Failed(IF result.error # "" THEN result.error
                         ELSE "Invalid JSX response")
  /\ UNCHANGED <<conversations, activeConversationId, inputValue, isGenerating,
                 previewCode, conversationId, sends, nextId, notAppVars>>

\* one pass of the retry loop in which the response is not ok
AttemptServerError ==
  /\ apc = "attempting"
  /\ \E message \in ServerErrors : Failed(message)
  /\ llmContent' = ""
  /\ validationResult' = NoValidation
  /\ UNCHANGED <<conversations, activeConversationId, inputValue, isGenerating,
                 previewCode, conversationId, sends, nextId, notAppVars>>

\* a sendMessage without its finally block
FinallyMissing == UNCHANGED isGenerating

\* finally { setIsGenerating(false); }
Finally == isGenerating' = FALSE

\* sendMessage after the await returned: the try block's remainder and
\* finally; the locals of generateComponentWithRetry and of its calls are gone
OnGenerated ==
  /\ apc = "settled"
  /\ generated.state = "fulfilled"
  /\ conversations' =
       AppendMessage(conversations, conversationId,
                     AssistantMessage(nextId, "Component generated successfully.",
                                      generated.value))
  /\ nextId' = nextId + 1
  /\ previewCode' = IF generated.value # "" THEN generated.value ELSE previewCode
  /\ Finally
  /\ apc' = "idle"
  /\ llmContent' = ""
  /\ validationResult' = NoValidation
  /\ attempt' = 0
  /\ lastError' = ""
  /\ UNCHANGED <<activeConversationId, inputValue, conversationId, generated,
                 sends, notAppVars>>

\* sendMessage after the await threw: the catch block and finally
OnError ==
  /\ apc = "settled"
  /\ generated.state = "rejected"
  /\ conversations' =
       AppendMessage(conversations, conversationId,
                     AssistantMessage(nextId, "Error: " \o generated.value, ""))
  /\ nextId' = nextId + 1
  /\ Finally
  /\ apc' = "idle"
  /\ llmContent' = ""
  /\ validationResult' = NoValidation
  /\ attempt' = 0
  /\ lastError' = ""
  /\ UNCHANGED <<activeConversationId, inputValue, previewCode, conversationId,
                 generated, sends, notAppVars>>

NextApp ==
  \/ InitSelect
  \/ TypeInput
  \/ startNewChat
  \/ selectConversation
  \/ deleteConversation
  \/ sendMessage
  \/ Attempt
  \/ AttemptServerError
  \/ OnGenerated
  \/ OnError

SpecApp == InitApp /\ [][NextApp]_vars

\* every HTTP request completes or fails, and the code after an await runs
RequestsComplete ==
  /\ WF_vars(Attempt \/ AttemptServerError)
  /\ WF_vars(OnGenerated \/ OnError)

SpecAppFair == InitApp /\ [][NextApp]_vars /\ RequestsComplete

\* the conversation sendMessage wrote to, if it still exists, ends with msg
LastMessageIs(role, text) ==
  conversationId \in ConversationIds(conversations) =>
    LET messages == ConversationOf(conversations, conversationId).messages
    IN /\ messages[Len(messages)].role = role
       /\ messages[Len(messages)].content = text
       /\ messages[Len(messages)].generatedCode = ""

\* C6: a response truncated inside an attribute never escapes as an unhandled
\* exception or as accepted code: validateJSXResponse answers isValid = FALSE
\* with a non-empty error for it, generateComponent never returns it, it never
\* reaches the preview, and when the retries end in failure sendMessage ends
\* with isGenerating cleared and an assistant message "Error: <message>" at
\* the end of the conversation it wrote to.
C6_TruncationReported ==
  /\ (llmContent # "" /\ Truncated(llmContent)) =>
       /\ ~validationResult.isValid
       /\ validationResult.error # ""
       /\ apc = "settled" => /\ generated.state = "rejected"
                             /\ generated.value = validationResult.error
  /\ generated.state = "fulfilled" => ~Truncated(generated.value)
  /\ ~Truncated(previewCode)
  /\ (apc = "idle" /\ generated.state = "rejected") =>
       /\ ~isGenerating
       /\ LastMessageIs("assistant", "Error: " \o generated.value)

\* the retries ended on a response cut off inside an attribute that only the
\* Babel parse rejects, and the conversation shows the error
C6_Witness ==
  /\ apc = "idle"
  /\ generated.state = "rejected"
  /\ generated.value =
       "JSX syntax error: Unexpected token. LLM response may be truncated or malformed."
  /\ conversationId \in ConversationIds(conversations)
  /\ isGenerating = FALSE
  /\ LET messages == ConversationOf(conversations, conversationId).messages
     IN messages[Len(messages)].content =
          "Error: JSX syntax error: Unexpected token. LLM response may be truncated or malformed."


----------------------------------------------------------------------------
(* Claims about findJSXEnd's early return                                  *)

\* the text starts with a component tag and ends with a component's closing
\* tag, and the two names are equal (same) or differ
EndNames(s, same) ==
  /\ FirstTagName(Trim(s)) # ""
  /\ ClosingTagName(Trim(s)) # ""
  /\ (FirstTagName(Trim(s)) = ClosingTagName(Trim(s))) = same

----------------------------------------------------------------------------
(* Claims about extractJSX's final checks                                  *)

\* s begins with a lowercase tag and holds no component tag
BareHtml(s) ==
  /\ CharAt(s, 1) = "<"
  /\ CharAt(s, 2) \in Lower
  /\ ~HoldsComponentTag(s)

\* C12 as claimed: when the cleaned text begins with a lowercase tag and holds
\* no component tag, extractJSX throws and never returns a value.
C12_BareHtmlAlwaysThrows ==
  (xpc = "done" /\ BareHtml(cleanCode)) => outcome.kind = "thrown"

\* C12: when the cleaned text begins with a lowercase tag and holds no
\* component tag, extractJSX throws, unless the text holds a render: or
\* children: property pattern, whose capture it returns instead.
C12_BareHtmlThrowsUnlessObjectPattern ==
  (xpc = "done" /\ BareHtml(cleanCode)) =>
    /\ NoObjectPattern(cleanCode) => outcome.kind = "thrown"
    /\ (Matched(MatchRender(cleanCode)) /\ outcome.kind = "returned") =>
         outcome.value = DropTrailingParen(
                           Trim(MatchText(cleanCode, MatchRender(cleanCode))))
    /\ (~NoObjectPattern(cleanCode) /\ ~Matched(MatchRender(cleanCode))
          /\ outcome.kind = "returned") =>
         outcome.value = DropTrailingParen(
                           Trim(MatchText(cleanCode, MatchChildren(cleanCode))))

\* a div with attributes and prose reaches the last check and is rejected
C12_Witness ==
  /\ xpc = "done"
  /\ code = ResponseParts[4] \o ResponseParts[10]
  /\ BareHtml(cleanCode)
  /\ NoObjectPattern(cleanCode)
  /\ outcome = ThrowError("HTML elements instead of JSX")


----------------------------------------------------------------------------
(* tokenize, the syntax highlighter's tokenizer                             *)
(* Each pattern is an operator that gives the length of match[0] of its    *)
(* regular expression on s, 0 when it does not match.                      *)

WordChar == AlphaNum \cup {"_"}
IdentStart == Alpha \cup {"_", "$"}
IdentChar == AlphaNum \cup {"_", "$"}
LineTerminators == {"\n", "\r"}

\* /^(\/\/[^\n]*|\/\*[\s\S]*?\*\/)/
CommentLen(s) ==
  IF StartsWith(s, "//")
  THEN (IF IndexOfFrom(s, "\n", 3) = 0 THEN Len(s)
        ELSE IndexOfFrom(s, "\n", 3) - 1)
  ELSE IF StartsWith(s, "/*")
  THEN (IF IndexOfFrom(s, "*/", 3) = 0 THEN 0
        ELSE IndexOfFrom(s, "*/", 3) + 1)
  ELSE 0

\* the index of the quote that closes the literal opened with q, 0 if none:
\* [^q\\]*(?:\\.[^q\\]*)*q read from index i
RECURSIVE StringEnd(_, _, _)
StringEnd(s, i, q) ==
  IF i > Len(s) THEN 0
  ELSE IF CharAt(s, i) = q THEN i
  ELSE IF CharAt(s, i) = "\\"
  THEN (IF i + 1 > Len(s) \/ CharAt(s, i + 1) \in LineTerminators THEN 0
        ELSE StringEnd(s, i + 2, q))
  ELSE StringEnd(s, i + 1, q)

\* /^("..."|'...'|`...`)/
StringLen(s) ==
  IF CharAt(s, 1) \in Quotes THEN StringEnd(s, 2, CharAt(s, 1)) ELSE 0

\* /^(<\/?[A-Z][a-zA-Z0-9.]*|<\/?[a-z][a-z0-9-]*)/
TagLen(s) ==
  LET n == IF CharAt(s, 2) = "/" THEN 3 ELSE 2
  IN IF CharAt(s, 1) # "<" THEN 0
     ELSE IF CharAt(s, n) \in Upper
     THEN SkipWhile(s, n + 1, AlphaNum \cup {"."}) - 1
     ELSE IF CharAt(s, n) \in Lower
     THEN SkipWhile(s, n + 1, Lower \cup Digit \cup {"-"}) - 1
     ELSE 0

\* /^(\/>|>)/
BracketLen(s) ==
  IF StartsWith(s, "/>") THEN 2 ELSE IF StartsWith(s, ">") THEN 1 ELSE 0

\* /^(w1|w2|...)\b/
WordLen(s, words) ==
  Max({0} \cup {Len(w) : w \in {x \in words :
                   StartsWith(s, x) /\ CharAt(s, Len(x) + 1) \notin WordChar}})

Keywords ==
  {"const", "let", "var", "function", "return", "export", "default", "import",
   "from", "if", "else", "for", "while", "class", "extends", "new", "this",
   "typeof", "instanceof", "async", "await", "try", "catch", "throw", "finally"}

KeywordLen(s) == WordLen(s, Keywords)

\* /^(true|false|null|undefined)\b/
BooleanLen(s) == WordLen(s, {"true", "false", "null", "undefined"})

\* /^-?\d+\.?\d*(e[+-]?\d+)?/
NumberLen(s) ==
  LET a == IF CharAt(s, 1) = "-" THEN 2 ELSE 1
      d1 == SkipWhile(s, a, Digit)
      d2 == IF CharAt(s, d1) = "." THEN d1 + 1 ELSE d1
      d3 == SkipWhile(s, d2, Digit)
      g == IF CharAt(s, d3 + 1) \in {"+", "-"} THEN d3 + 2 ELSE d3 + 1
  IN IF CharAt(s, a) \notin Digit THEN 0
     ELSE IF CharAt(s, d3) = "e" /\ CharAt(s, g) \in Digit
     THEN SkipWhile(s, g, Digit) - 1
     ELSE d3 - 1

\* /^([a-zA-Z_$][a-zA-Z0-9_$]*)\s*(?=c)/ : the name and the whitespace
NameBeforeLen(s, c) ==
  LET w == SkipWhile(s, SkipWhile(s, 2, IdentChar), Space)
  IN IF CharAt(s, 1) \in IdentStart /\ CharAt(s, w) = c THEN w - 1 ELSE 0

AttrNameLen(s) == NameBeforeLen(s, "=")
FunctionLen(s) == NameBeforeLen(s, "(")

\* /^[a-zA-Z_$][a-zA-Z0-9_$]*/
IdentifierLen(s) ==
  IF CharAt(s, 1) \in IdentStart THEN SkipWhile(s, 2, IdentChar) - 1 ELSE 0

\* /^(=>|===|!==|==|!=|<=|>=|&&|\|\||[+\-*/%=<>!&|^~?:])/
\* (the tilde stands for the backquote in this model and is left out)
LongOperators == <<"=>", "===", "!==", "==", "!=", "<=", ">=", "&&", "||">>

OperatorLen(s) ==
  LET hits == {k \in DOMAIN LongOperators : StartsWith(s, LongOperators[k])}
  IN IF hits # {} THEN Len(LongOperators[Min(hits)])
     ELSE IF CharAt(s, 1) \in CharSet("+-*/%=<>!&|^?:") THEN 1
     ELSE 0

\* /^[{}[\]();,.]/
PunctuationLen(s) == IF CharAt(s, 1) \in CharSet("{}[]();,.") THEN 1 ELSE 0

\* /^\s+/
WhitespaceLen(s) == SkipWhile(s, 1, Space) - 1

\* the types of the patterns array, in its order
patternTypes ==
  << "comment", "string", "tag", "punctuation", "keyword", "boolean", "number",
     "attr-name", "function", "plain", "operator", "punctuation", "whitespace" >>

\* the length of the match of the k-th pattern on s
PatternLen(s, k) ==
  CASE k = 1 -> CommentLen(s)
    [] k = 2 -> StringLen(s)
    [] k = 3 -> TagLen(s)
    [] k = 4 -> BracketLen(s)
    [] k = 5 -> KeywordLen(s)
    [] k = 6 -> BooleanLen(s)
    [] k = 7 -> NumberLen(s)
    [] k = 8 -> AttrNameLen(s)
    [] k = 9 -> FunctionLen(s)
    [] k = 10 -> IdentifierLen(s)
    [] k = 11 -> OperatorLen(s)
    [] k = 12 -> PunctuationLen(s)
    [] k = 13 -> WhitespaceLen(s)

\* for (const {type, regex} of patterns): the first pattern from the k-th on
\* that matches s, 0 if none does
RECURSIVE FirstMatchFrom(_, _)
FirstMatchFrom(s, k) ==
  IF k > Len(patternTypes) THEN 0
  ELSE IF PatternLen(s, k) > 0 THEN k
  ELSE FirstMatchFrom(s, k + 1)

FirstMatch(s) == FirstMatchFrom(s, 1)

\* remaining.slice(match[0].length), with whitespace after the match dropped too
SliceMatchAndSpace(s, len) == From(s, SkipWhile(s, len + 1, Space))

\* remaining.slice(match[0].length)
SliceMatch(s, len) == From(s, len + 1)

\* an unknown character that is left in place
SliceNone(s) == s

\* remaining.slice(1)
SliceOne(s) == From(s, 2)

MaxHlParts == 3

\* the pieces of the code given to tokenize
HlParts ==
  << "const", " ", "x1", "=", "\"", "\\", "<Card", "/", "*", "-1.", "(",
     "null" >>

HlInputs ==
  {Concat([k \in DOMAIN parts |-> HlParts[parts[k]]]) :
     parts \in SeqsUpTo(DOMAIN HlParts, MaxHlParts)}

InitHl ==
  /\ hlPc = "call"
  /\ hlCode = ""
  /\ hlRemaining = ""
  /\ hlTokens = <<>>
  /\ iterations = 0
  /\ ParseIdle /\ ExtractIdle /\ ScanIdle /\ AppIdle /\ RawIdle /\ ToolsIdle

\* tokenize(code): const tokens = []; let remaining = code
HlCall ==
  /\ hlPc = "call"
  /\ \E text \in HlInputs :
       /\ hlCode' = text
       /\ hlRemaining' = text
  /\ hlTokens' = <<>>
  /\ hlPc' = "loop"
  /\ UNCHANGED <<iterations, notHlVars>>

\* an iteration in which a pattern matches
HlMatch ==
  /\ hlPc = "loop"
  /\ Len(hlRemaining) > 0
  /\ LET k == FirstMatch(hlRemaining)
     IN /\ k # 0
        /\ LET len == PatternLen(hlRemaining, k)
           IN /\ hlTokens' = Append(hlTokens,
                                    [type |-> patternTypes[k],
                                     value |-> SubSeq(hlRemaining, 1, len)])
              /\ hlRemaining' = SliceMatch(hlRemaining, len)
  /\ iterations' = iterations + 1
  /\ UNCHANGED <<hlPc, hlCode, notHlVars>>

\* an iteration in which no pattern matches: unknown character, add as plain
HlUnknown ==
  /\ hlPc = "loop"
  /\ Len(hlRemaining) > 0
  /\ FirstMatch(hlRemaining) = 0
  /\ hlTokens' = Append(hlTokens,
                        [type |-> "plain", value |-> CharAt(hlRemaining, 1)])
  /\ hlRemaining' = SliceOne(hlRemaining)
  /\ iterations' = iterations + 1
  /\ UNCHANGED <<hlPc, hlCode, notHlVars>>

\* return tokens
HlReturn ==
  /\ hlPc = "loop"
  /\ Len(hlRemaining) = 0
  /\ hlPc' = "returned"
  /\ UNCHANGED <<hlCode, hlRemaining, hlTokens, iterations, notHlVars>>

NextHl ==
  \/ HlCall
  \/ HlMatch
  \/ HlUnknown
  \/ HlReturn

SpecHl == InitHl /\ [][NextHl]_vars

TokenValues(toks) == Concat([k \in DOMAIN toks |-> toks[k].value])

\* C13: the tokens of tokenize are in source order, do not overlap and skip
\* nothing: at every iteration the token values so far, concatenated, followed
\* by the remaining text, are the input; no token is empty; and what is
\* returned concatenates to the input exactly.
C13_TokensReconstructInput ==
  /\ hlPc \in {"loop", "returned"} =>
       /\ TokenValues(hlTokens) \o hlRemaining = hlCode
       /\ \A k \in DOMAIN hlTokens : Len(hlTokens[k].value) > 0
  /\ hlPc = "returned" => TokenValues(hlTokens) = hlCode

\* tokenize returned for "x1 (": a function name that takes the whitespace
\* after it into its token, and a punctuation mark
C13_Witness ==
  /\ hlPc = "returned"
  /\ hlCode = "x1 ("
  /\ hlTokens = << [type |-> "function", value |-> "x1 "],
                   [type |-> "punctuation", value |-> "("] >>

\* C14: tokenize terminates: while it is in its loop the pattern that matches
\* matches at least one character and no more than remain, every iteration
\* makes the remaining text strictly shorter, and so the iterations
\* made plus the characters left never exceed the input length; a character
\* that starts no token is consumed as a plain token.
C14_TokenizeTerminates ==
  /\ [](hlPc = "loop" =>
          /\ FirstMatch(hlRemaining) # 0 =>
               PatternLen(hlRemaining, FirstMatch(hlRemaining))
                 \in 1..Len(hlRemaining)
          /\ iterations + Len(hlRemaining) <= Len(hlCode)
          /\ Len(hlTokens) = iterations)
  /\ [](hlPc = "returned" => hlRemaining = "" /\ iterations <= Len(hlCode))
  /\ [][hlPc = "loop" /\ hlPc' = "loop"
          => Len(hlRemaining') < Len(hlRemaining)]_vars

\* tokenize returned after consuming a character that starts no token
C14_Witness ==
  /\ hlPc = "returned"
  /\ hlCode = "\\\"("
  /\ iterations = 3
  /\ hlTokens[1] = [type |-> "plain", value |-> "\\"]
  /\ hlTokens[2] = [type |-> "plain", value |-> "\""]


----------------------------------------------------------------------------
(* The /api/raw-source endpoints of the Vite and the Storybook dev server  *)

\* src/stories/<dir>/<name>.stories.<ext>; dir "stories" is src/stories itself
StoryFile(dir, name, ext) == [dir |-> dir, name |-> name, ext |-> ext]

\* the story files the model follows
StoryFiles ==
  { StoryFile("edited", "a", "tsx"), StoryFile("generated", "a", "tsx"),
    StoryFile("generated", "a", "ts"), StoryFile("stories", "a", "tsx") }

\* the values of the file parameter; "" when the parameter is missing
FileParams == {"", "a"}

\* fs.existsSync(path)
existsSync(files, f) == f \in DOMAIN files /\ files[f] # "absent"

\* fs.readFileSync(path, 'utf-8') of a file that exists
readFileSync(files, f) == IF files[f] = "empty" THEN "" ELSE "story"

Response(statusCode, f) == [statusCode |-> statusCode, dir |-> f.dir, ext |-> f.ext]
NotFound == [statusCode |-> 404, dir |-> "", ext |-> ""]
BadRequest == [statusCode |-> 400, dir |-> "", ext |-> ""]

\* the first path of the list that exists, as a sequence of at most one file
RECURSIVE FirstExisting(_, _)
FirstExisting(files, paths) ==
  IF paths = <<>> THEN <<>>
  ELSE IF existsSync(files, Head(paths)) THEN <<Head(paths)>>
  ELSE FirstExisting(files, Tail(paths))

\* vite.config.ts: edited/ first when isEdited, generated/ first otherwise
ViteResponse(files, fileName, isEdited) ==
  LET editedPath == StoryFile("edited", fileName, "tsx")
      generatedPath == StoryFile("generated", fileName, "tsx")
      found == FirstExisting(files, IF isEdited
                                    THEN <<editedPath, generatedPath>>
                                    ELSE <<generatedPath, editedPath>>)
  IN IF fileName = "" THEN BadRequest
     ELSE IF found = <<>> THEN NotFound
     ELSE Response(200, found[1])

\* .storybook: possiblePaths, whatever isEdited says; a file that reads as ''
\* counts as not found
StorybookResponse(files, fileName) ==
  LET possiblePaths == << StoryFile("generated", fileName, "tsx"),
                          StoryFile("generated", fileName, "ts"),
                          StoryFile("stories", fileName, "tsx"),
                          StoryFile("stories", fileName, "ts"),
                          StoryFile("src", fileName, "") >>
      found == FirstExisting(files, possiblePaths)
  IN IF fileName = "" THEN BadRequest
     ELSE IF found = <<>> THEN NotFound
     ELSE IF readFileSync(files, found[1]) = "" THEN NotFound
     ELSE Response(200, found[1])

InitRaw ==
  /\ fsFiles = [f \in StoryFiles |-> "absent"]
  /\ rawReq = NoRequest
  /\ rawRes = NoResponse
  /\ ParseIdle /\ ExtractIdle /\ ScanIdle /\ AppIdle /\ HlIdle /\ ToolsIdle

\* a story file is generated, saved from the editor, or emptied
WriteFile ==
  /\ \E f \in StoryFiles, text \in {"empty", "full"} :
       /\ fsFiles[f] # text
       /\ fsFiles' = [fsFiles EXCEPT ![f] = text]
  /\ UNCHANGED <<rawReq, rawRes, notRawVars>>

DeleteFile ==
  /\ \E f \in StoryFiles :
       /\ fsFiles[f] # "absent"
       /\ fsFiles' = [fsFiles EXCEPT ![f] = "absent"]
  /\ UNCHANGED <<rawReq, rawRes, notRawVars>>

\* GET /api/raw-source on the Vite dev server
ViteRawSource ==
  /\ \E fileName \in FileParams, isEdited \in BOOLEAN :
       /\ rawReq' = [server |-> "vite", file |-> fileName, isEdited |-> isEdited]
       /\ rawRes' = ViteResponse(fsFiles, fileName, isEdited)
  /\ UNCHANGED <<fsFiles, notRawVars>>

\* GET /api/raw-source on the Storybook dev server
StorybookRawSource ==
  /\ \E fileName \in FileParams, isEdited \in BOOLEAN :
       /\ rawReq' = [server |-> "storybook", file |-> fileName,
                     isEdited |-> isEdited]
       /\ rawRes' = StorybookResponse(fsFiles, fileName)
  /\ UNCHANGED <<fsFiles, notRawVars>>

NextRaw ==
  \/ WriteFile
  \/ DeleteFile
  \/ ViteRawSource
  \/ StorybookRawSource

SpecRaw == InitRaw /\ [][NextRaw]_vars

\* what the priority flag asks for: the directory to serve from, "" for 404
PreferredDir(files, fileName, isEdited) ==
  LET inEdited == existsSync(files, StoryFile("edited", fileName, "tsx"))
      inGenerated == existsSync(files, StoryFile("generated", fileName, "tsx"))
  IN IF isEdited
     THEN (IF inEdited THEN "edited" ELSE IF inGenerated THEN "generated" ELSE "")
     ELSE (IF inGenerated THEN "generated" ELSE IF inEdited THEN "edited" ELSE "")

\* C15: every answer of a raw-source endpoint to a request that names a file
\* honours the priority flag: with isEdited it serves edited/<file>.stories.tsx
\* when that exists and generated/ otherwise, without it generated/ first and
\* edited/ otherwise, and it answers 404 only when the file is in neither.
C15_HonoursPriorityFlag ==
  [][((ViteRawSource \/ StorybookRawSource) /\ rawReq'.file # "") =>
       LET dir == PreferredDir(fsFiles, rawReq'.file, rawReq'.isEdited)
       IN IF dir = "" THEN rawRes'.statusCode = 404
          ELSE rawRes' = Response(200, StoryFile(dir, rawReq'.file, "tsx"))]_vars


----------------------------------------------------------------------------
(* Closing tags that do not match, and input that ends early               *)

\* the tag name as written in the source of the element built as nodes[i]
RawTagName(i) == Creators[i].tagName

\* the elements that are open: the contexts on the stack and the current one
OpenNodes(stack, cur) ==
  {stack[k].component : k \in DOMAIN stack} \cup ({cur} \ {Null})

\* a tag_close token is handled whose name is not that of the current element
MismatchedClose ==
  /\ HasToken
  /\ token.type = "tag_close"
  /\ currentComponent # Null
  /\ token.tagName # RawTagName(currentComponent)

\* the stack positions of the ancestors named by the token
MatchingAncestors ==
  {k \in DOMAIN parseStack : RawTagName(parseStack[k].component) = token.tagName}

\* C16: a tag_close token whose name differs from the current element's
\* name never aborts the parse (the loop goes on with the next token); if an
\* ancestor on the stack has that name, the nearest one is closed, so
\* exactly the ancestors below it stay open; if none has, the stack, the
\* current element and the root sequence are unchanged.  (The parser keeps
\* no list of warnings or errors, so the recorded warning has no state to
\* be checked against: parseJSXElement returns the components only.)
C16_MismatchedCloseRecovers ==
  [][MismatchedClose =>
       /\ pc' = "loop"
       /\ tokenIdx' = tokenIdx + 1
       /\ IF MatchingAncestors # {}
          THEN LET nearest == CHOOSE k \in MatchingAncestors :
                                \A j \in MatchingAncestors : j <= k
               IN OpenNodes(parseStack', currentComponent')
                    = {parseStack[j].component : j \in 1..(nearest - 1)}
          ELSE UNCHANGED <<parseStack, currentComponent, components>>]_vars


\* C17: when the token stream ends while elements are still open, every
\* unclosed element is returned in the tree (a root or a descendant of one)
\* together with the children collected for it so far.  (No warning list
\* exists in the parser to hold the warning the claim also asks for.)
C17_UnclosedElementsReturned ==
  (pc = "done" /\ tokens # <<>>)
    => /\ OpenNodes(parseStack, currentComponent) \subseteq InTree
       /\ \A k \in DOMAIN parseStack :
            Range(parseStack[k].children)
              \subseteq Range(ChildrenOf(nodes[parseStack[k].component]))


----------------------------------------------------------------------------
(* Sibling elements and text content.  The inputs are the balanced sources *)
(* of at most MaxSiblingLex lexemes over <Card>, </Card>, a self-closing   *)
(* tag and a text run, which is enough for a container with two sibling    *)
(* elements that each have a child.                                        *)

MaxSiblingLex == 8

SiblingLexemes == {1, 2, 5, 8}

SiblingInputs ==
  {lex \in SeqsUpTo(SiblingLexemes, MaxSiblingLex) :
     BalancedFrom([k \in DOMAIN lex |-> ParseLexemes[lex[k]]], 1, <<>>)}

InitSiblings ==
  /\ pc = "start"
  /\ inputLex \in SiblingInputs
  /\ tokens = <<>>
  /\ tokenIdx = 1
  /\ LocalsAtEntry
  /\ calls = 1
  /\ results = NoResults
  /\ NotParserIdle

\* one call of parseJSXElement on one balanced input
SpecSiblings == InitSiblings /\ [][NextParse]_vars

IsElementToken(k) == tokens[k].type \in {"tag_open", "tag_self_close"}

\* the tag_close token that closes the element opened by token a
CloseOf(a) ==
  CHOOSE c \in DOMAIN tokens :
    tokens[c].type = "tag_close" /\ OpenElementAt(c) = a

\* the components of the elements written directly inside element a
ElementChildren(a) ==
  {NodeOfToken(k) : k \in {j \in DOMAIN tokens :
                             IsElementToken(j) /\ OpenElementAt(j) = a}}

\* the element children a component holds in the result
TagChildren(n) == {c \in Range(ChildrenOf(nodes[n])) : IsTagNode(c)}

\* b opens the next element after the one opened by a, with the same name
\* and at the same depth
AdjacentSameName(a, b) ==
  /\ tokens[a].type = "tag_open"
  /\ tokens[b].type = "tag_open"
  /\ tokens[a].tagName = tokens[b].tagName
  /\ CloseOf(a) < b
  /\ OpenElementAt(a) = OpenElementAt(b)
  /\ \A k \in (CloseOf(a) + 1)..(b - 1) : tokens[k].type = "text"

\* C18: adjacent sibling elements of the same name are not merged: each is
\* a component of its own in the returned tree, under their common parent
\* (or among the roots), and each holds exactly the elements written inside
\* it (two Cards with one child each give two components with one child
\* each).
C18_SiblingsNotMerged ==
  (pc = "done" /\ tokens # <<>> /\ BalancedTokens)
    => \A a, b \in DOMAIN tokens :
         AdjacentSameName(a, b)
           => LET p == OpenElementAt(a)
                  siblings == IF p = 0 THEN Range(components)
                              ELSE Range(ChildrenOf(nodes[NodeOfToken(p)]))
              IN /\ NodeOfToken(a) \in siblings
                 /\ NodeOfToken(b) \in siblings
                 /\ TagChildren(NodeOfToken(a)) = ElementChildren(a)
                 /\ TagChildren(NodeOfToken(b)) = ElementChildren(b)


\* an element was written inside element p before token j
HasElementChildBefore(p, j) ==
  \E k \in (p + 1)..(j - 1) : IsElementToken(k) /\ OpenElementAt(k) = p

\* element a contains text and nothing else
OnlyText(a) ==
  /\ tokens[a].type = "tag_open"
  /\ CloseOf(a) = a + 2
  /\ tokens[a + 1].type = "text"

\* C19: a non-blank text token inside an element that has no children yet
\* becomes that element's text value (props.children) and adds no child, so
\* an element containing only text has no children; inside an element that
\* already has element children it is appended as a text leaf; with no
\* element open it is a text leaf among the roots.
C19_TextPlacement ==
  (pc = "done" /\ tokens # <<>> /\ BalancedTokens)
    => /\ \A j \in DOMAIN tokens :
            tokens[j].type = "text"
              => LET leaf == NodeOfToken(j)
                     p == OpenElementAt(j)
                     element == nodes[NodeOfToken(p)]
                 IN IF p = 0 THEN leaf \in Range(components)
                    ELSE IF HasElementChildBefore(p, j)
                    THEN leaf \in Range(ChildrenOf(element))
                    ELSE /\ element.props
                              = ("children" :> nodes[leaf].props.children)
                         /\ leaf \notin Range(ChildrenOf(element))
       /\ \A a \in DOMAIN tokens :
            OnlyText(a) => ChildrenOf(nodes[NodeOfToken(a)]) = <<>>


----------------------------------------------------------------------------
(* The end of the root element, as a JSX lexer finds it                    *)

\* What a JSX lexer does with the character at index k in the state st:
\* whether it is in a tag, whether that tag is a closing one, the open
\* attribute braces, the quote of the attribute string being read, the
\* element depth, and the index of the ">" at which the depth returned to
\* zero (0 while it has not)
RootStep(s, k, st) ==
  LET c == CharAt(s, k)
  IN IF st.end > 0 THEN st
     ELSE IF st.quote # ""
     THEN (IF c = st.quote THEN [st EXCEPT !.quote = ""] ELSE st)
     ELSE IF st.inTag
     THEN (IF c \in Quotes THEN [st EXCEPT !.quote = c]
           ELSE IF c = "{" THEN [st EXCEPT !.braces = @ + 1]
           ELSE IF c = "}" THEN [st EXCEPT !.braces = @ - 1]
           ELSE IF c = ">" /\ st.braces = 0
           THEN LET closed == st.closing \/ CharAt(s, k - 1) = "/"
                    after == IF closed THEN st.depth - 1 ELSE st.depth
                IN [st EXCEPT !.inTag = FALSE, !.depth = after,
                              !.end = IF after = 0 THEN k ELSE 0]
           ELSE st)
     ELSE IF c = "<" /\ CharAt(s, k + 1) = "/"
     THEN [st EXCEPT !.inTag = TRUE, !.closing = TRUE]
     ELSE IF c = "<" /\ CharAt(s, k + 1) \in Alpha
     THEN [st EXCEPT !.inTag = TRUE, !.closing = FALSE, !.depth = @ + 1]
     ELSE st

RECURSIVE RootEndFrom(_, _, _)
RootEndFrom(s, k, st) ==
  IF st.end > 0 \/ k > Len(s) THEN st.end
  ELSE RootEndFrom(s, k + 1, RootStep(s, k, st))

\* the number of characters of s up to and including the ">" that closes
\* its first element, 0 if nothing does
RootEnd(s) ==
  RootEndFrom(s, 1, [inTag |-> FALSE, closing |-> FALSE, braces |-> 0,
                     quote |-> "", depth |-> 0, end |-> 0])

\* s is one root element that starts with a capitalized tag, followed by
\* prose: text after the element that holds no tag
RootThenProse(s) ==
  /\ StartsComponent(s)
  /\ RootEnd(s) > 0
  /\ RootEnd(s) < Len(s)
  /\ \A q \in (RootEnd(s) + 1)..Len(s) : CharAt(s, q) \notin {"<", ">"}

\* C20: for a text that is one balanced root element starting with a
\* capitalized tag, followed by trailing prose, findJSXEnd returns the
\* offset just past the root element's own closing tag, so that cutting
\* there leaves the complete root element and drops exactly the prose.
C20_TrailingProseDiscarded ==
  (scanPc = "returned" /\ RootThenProse(scanCode))
    => scanResult = RootEnd(scanCode)


----------------------------------------------------------------------------
(* extractJSX on text that is already one component element                *)

MaxCleanParts == 5

\* the pieces of the clean elements
CleanParts == << "<Card>", "</Card>", "<p>Hi</p>", "Hi", "<Badge />" >>

\* s is a single element that starts with a capitalized tag and ends with
\* the closing tag of that element
IsCleanElement(s) == StartsComponent(s) /\ RootEnd(s) = Len(s)

CleanInputs ==
  {s \in {Concat([k \in DOMAIN parts |-> CleanParts[parts[k]]]) :
            parts \in SeqsUpTo(DOMAIN CleanParts, MaxCleanParts)} :
     IsCleanElement(s)}

\* extractJSX is given a response or a clean element
InitClean ==
  /\ xpc = "entry"
  /\ code \in Responses \cup CleanInputs
  /\ cleanCode = ""
  /\ outcome = NoOutcome
  /\ ParseIdle
  /\ ScanIdle
  /\ AppIdle
  /\ RestIdle

SpecClean == InitClean /\ [][NextExtract]_vars

\* C21: extractJSX is the identity on clean input: a text that is one
\* element starting with a capitalized tag and ending with that element's
\* closing tag (no fence, header or prose around it) is returned unchanged,
\* whatever lowercase tags, nested elements of the same name or text it
\* contains.
C21_CleanInputUnchanged ==
  (xpc = "done" /\ IsCleanElement(code)) => outcome = ReturnValue(code)


----------------------------------------------------------------------------
(* Termination of extractJSX and of the scan of findJSXEnd                 *)

\* one call of extractJSX on a response, or one call of findJSXEnd on a text
InitTerm == InitExtract \/ InitScan

NextTerm ==
  \/ NextExtract
  \/ NextScan

SpecTerm == InitTerm /\ [][NextTerm]_vars

\* the position of a step in the body of extractJSX
StepRank(p) ==
  CASE p = "entry" -> 0
    [] p = "step0" -> 1
    [] p = "step0_5" -> 2
    [] p = "step1" -> 3
    [] p = "step2" -> 4
    [] p = "step3" -> 5
    [] p = "step4" -> 6
    [] p = "step4_5" -> 7
    [] p = "step5" -> 8
    [] p = "finish" -> 9
    [] p = "done" -> 10
    [] OTHER -> 11

\* C22: extractJSX terminates.  Its steps only go forward, except for the
\* recursive call after fence removal, which is made on a string strictly
\* shorter than the one the caller received; and every iteration of the scan
\* of findJSXEnd either returns or advances i by one character, i never
\* passing the end of the text.
C22_ExtractTerminates ==
  /\ [][xpc' # xpc =>
          IF xpc' = "entry"
          THEN xpc = "step3" /\ Len(code') < Len(code)
          ELSE StepRank(xpc') > StepRank(xpc) /\ code' = code]_vars
  /\ [](scanPc = "loop" => scan.i <= Len(scanCode))
  /\ []((scanPc = "loop" /\ ~ScanEnded(scanCode, scan))
          => LET after == ScanStep(scanCode, scan)
             IN /\ after.found \/ after.i = scan.i + 1
                /\ after.i <= Len(scanCode))

\* the recursive call has been made: extractJSX is entered again, on the
\* HTML document that was inside the fence
C22_Witness ==
  /\ xpc = "entry"
  /\ cleanCode = code
  /\ IsHtmlDocument(code)


----------------------------------------------------------------------------
(* Claims about generation and the conversations                           *)

\* a step of the retry loop: a call of generateComponent has come back
RetryLoopStep ==
  /\ apc = "attempting"
  /\ <<attempt, generated>>' # <<attempt, generated>>

\* C23: generateComponentWithRetry calls generateComponent at most
\* maxRetries + 1 times, one call after the other: a call is made only
\* with attempt <= maxRetries and each failed call that is retried adds one
\* to attempt; the first call that succeeds settles the promise with its
\* result and no further call is made; the promise is rejected only by the
\* failure of the call made with attempt = maxRetries, with that error.
C23_RetryAtMostMaxRetries ==
  [][RetryLoopStep =>
       /\ attempt <= maxRetries
       /\ IF llmContent' # "" /\ ValidationOf[llmContent'].isValid
          THEN /\ apc' = "settled"
               /\ generated' = Fulfilled(CleanedOf[llmContent'])
               /\ attempt' = attempt
          ELSE /\ lastError' # ""
               /\ IF attempt < maxRetries
                  THEN /\ apc' = "attempting"
                       /\ attempt' = attempt + 1
                       /\ generated' = generated
                  ELSE /\ apc' = "settled"
                       /\ generated' = Rejected(lastError')]_vars

\* the call made with attempt = maxRetries has failed with a server error
\* and the promise is rejected with that error
C23_Witness ==
  /\ apc = "settled"
  /\ generated.state = "rejected"
  /\ attempt = maxRetries
  /\ generated.value = "Server Error: 500"
  /\ llmContent = ""


\* sequence a is the beginning of sequence b
IsPrefixOf(a, b) == Len(a) <= Len(b) /\ SubSeq(b, 1, Len(a)) = a

\* C24: no stored conversation ever has an empty messages list: a
\* conversation appears only in the step in which sendMessage starts a
\* generation, holding exactly the user message; the messages of a
\* conversation that stays are only appended to; starting a new chat or
\* deleting a conversation creates none.
C24_NoEmptyConversation ==
  /\ [](\A k \in DOMAIN conversations : Len(conversations[k].messages) > 0)
  /\ [][\A k \in DOMAIN conversations' :
          LET conv == conversations'[k]
          IN IF conv.id \in ConversationIds(conversations)
             THEN IsPrefixOf(ConversationOf(conversations, conv.id).messages,
                             conv.messages)
             ELSE /\ ~isGenerating /\ isGenerating'
                  /\ Len(conv.messages) = 1
                  /\ conv.messages[1].role = "user"
                  /\ activeConversationId = Null
                  /\ activeConversationId' = conv.id]_vars

\* sendMessage has created a conversation next to the two stored ones, its
\* answer has arrived, and the user has then deleted all three
C24_Witness ==
  /\ conversations = <<>>
  /\ activeConversationId = Null
  /\ nextId = 10
  /\ apc = "idle"


\* sendMessage passes its guard
SendStep == ~isGenerating /\ isGenerating'

\* the generation has settled and sendMessage runs on after its await
FinishStep == apc = "settled" /\ apc' = "idle"

\* from convs to after, exactly the conversation id got one message more,
\* and `ok` holds of that message
OneMessageAdded(convs, after, id, ok(_)) ==
  /\ id \in ConversationIds(after)
  /\ \A k \in DOMAIN after :
       LET conv == after[k]
       IN IF conv.id # id
          THEN conv.id \in ConversationIds(convs)
                 /\ conv = ConversationOf(convs, conv.id)
          ELSE LET before == IF id \in ConversationIds(convs)
                             THEN ConversationOf(convs, id).messages
                             ELSE <<>>
               IN /\ Len(conv.messages) = Len(before) + 1
                  /\ IsPrefixOf(before, conv.messages)
                  /\ ok(conv.messages[Len(conv.messages)])
  /\ Len(after) = Len(convs) + (IF id \in ConversationIds(convs) THEN 0 ELSE 1)

IsUserMessageOf(text, m) ==
  m.role = "user" /\ m.content = text /\ m.generatedCode = ""

\* the assistant message for a settled generation: the code on success, an
\* error text without code on failure
IsAnswerTo(promise, m) ==
  /\ m.role = "assistant"
  /\ IF promise.state = "fulfilled"
     THEN m.generatedCode = promise.value
     ELSE m.generatedCode = "" /\ m.content = "Error: " \o promise.value

Alternating(messages) ==
  \A j \in DOMAIN messages :
    messages[j].role = IF j % 2 = 1 THEN "user" ELSE "assistant"

\* a sendMessage that passes its guard adds exactly the user message, to
\* the conversation it then generates for
SendAddsUserMessage ==
  SendStep =>
    LET text == Trim(inputValue)
    IN OneMessageAdded(conversations, conversations', conversationId',
                       LAMBDA m : IsUserMessageOf(text, m))

\* the conversation of the user message gets exactly the assistant message
AnswerAdded ==
  OneMessageAdded(conversations, conversations', conversationId,
                  LAMBDA m : IsAnswerTo(generated, m))

\* C25 as claimed: every sendMessage that passes its guard appends exactly
\* one user message, and when the generation finishes exactly one assistant
\* message is appended to the conversation that received the user message,
\* whatever the user did meanwhile; messages alternate user, assistant, ...
C25_OneAnswerPerSend ==
  /\ [][SendAddsUserMessage /\ (FinishStep => AnswerAdded)]_vars
  /\ [](\A k \in DOMAIN conversations : Alternating(conversations[k].messages))

\* C25 amended: the assistant message is appended to the conversation that
\* received the user message if that conversation is still stored (also
\* when it is no longer the active one); if it was deleted meanwhile, no
\* message is appended anywhere.
C25_OneAnswerUnlessDeleted ==
  /\ [][SendAddsUserMessage
         /\ (FinishStep =>
               IF conversationId \in ConversationIds(conversations)
               THEN AnswerAdded
               ELSE conversations' = conversations)]_vars
  /\ [](\A k \in DOMAIN conversations : Alternating(conversations[k].messages))

\* the answer has been appended to the conversation of the user message
\* although another conversation was selected meanwhile
C25_Witness ==
  /\ apc = "idle"
  /\ sends = 1
  /\ activeConversationId \notin {Null, conversationId}
  /\ conversationId \in ConversationIds(conversations)
  /\ LET messages == ConversationOf(conversations, conversationId).messages
     IN /\ Len(messages) = 4
        /\ messages[4].generatedCode # ""
        /\ previewCode # messages[4].generatedCode


\* ---------------------------------------------------------------------
\* C26: sendMessage acts only when its guard passes

\* some conversation ends, after the step, with a user message it did not
\* have before
UserMessageAppended ==
  \E k \in DOMAIN conversations' :
    LET conv == conversations'[k]
        last == conv.messages[Len(conv.messages)]
    IN /\ last.role = "user"
       /\ \A j \in DOMAIN conversations :
            conversations[j].id = conv.id =>
              Len(conversations[j].messages) < Len(conv.messages)

ConversationCreated ==
  ConversationIds(conversations') \ ConversationIds(conversations) # {}

GenerationStarted == sends' # sends

GenerationStep ==
  apc' # apc \/ attempt' # attempt \/ generated' # generated

\* C27: whenever isGenerating is true it becomes false again, provided every
\* request completes or fails; and of the steps of a generation only the finish
\* of a successful one changes previewCode
C27_GeneratingEnds ==
  /\ isGenerating ~> ~isGenerating
  /\ [][(isGenerating /\ GenerationStep /\ previewCode' # previewCode)
          => (FinishStep /\ generated.state = "fulfilled")]_vars

\* the generation has finished with the error of a rejected response and the
\* preview still shows the stored code
C27_Witness ==
  /\ apc = "idle"
  /\ ~isGenerating
  /\ sends = 1
  /\ generated.state = "rejected"
  /\ generated.value \notin ServerErrors
  /\ previewCode = LlmParts[1]


\* ---------------------------------------------------------------------
\* C28: the preview and the active conversation

\* the values of generatedCode among the messages
GeneratedCodes(messages) ==
  {messages[k].generatedCode : k \in DOMAIN messages} \ {""}

\* C28: whenever a conversation is active, previewCode is null (here "") or
\* the generatedCode of a message of the active conversation.
C28_PreviewFromActive ==
  (apc # "off" /\ activeConversationId # Null) =>
    /\ activeConversationId \in ConversationIds(conversations)
    /\ \/ previewCode = ""
       \/ previewCode \in
            GeneratedCodes(ConversationOf(conversations,
                                          activeConversationId).messages)


----------------------------------------------------------------------------
(* start-production.sh                                                     *)

\* local max_attempts=120
max_attempts == 120

StorybookPort == 6006
McpPort == 4005
ServicePorts == {StorybookPort, McpPort}

\* the script has been started; nothing is bound yet
InitStart ==
  /\ shPc = "start"
  /\ shPort = 0
  /\ shAttempt = 0
  /\ openPorts = {}
  /\ observed = {}
  /\ polls = 0
  /\ exitStatus = -1
  /\ ParseIdle /\ ExtractIdle /\ ScanIdle /\ AppIdle /\ HlIdle /\ RawIdle
  /\ PanelIdle

\* wait_for_port up to its loop: local port=$1, local attempt=1
EnterWait(port) ==
  /\ shPc' = "polling"
  /\ shPort' = port
  /\ shAttempt' = 1
  /\ polls' = 0

\* both services are launched in the background and the script goes on to
\* wait_for_port 6006 "Storybook"
StartServices ==
  /\ shPc = "start"
  /\ EnterWait(StorybookPort)
  /\ UNCHANGED <<openPorts, observed, exitStatus, notStartVars>>

\* a service that was launched binds its port
PortOpens ==
  /\ shPc \notin {"idle", "start", "exited"}
  /\ \E port \in ServicePorts \ openPorts : openPorts' = openPorts \cup {port}
  /\ UNCHANGED <<shPc, shPort, shAttempt, observed, polls, exitStatus,
                 notStartVars>>

\* a service stops and its port is closed again
PortCloses ==
  /\ shPc \notin {"idle", "start", "exited"}
  /\ \E port \in openPorts : openPorts' = openPorts \ {port}
  /\ UNCHANGED <<shPc, shPort, shAttempt, observed, polls, exitStatus,
                 notStartVars>>

\* a test that gives up one poll too late
AttemptsExhaustedLate == shAttempt > max_attempts

\* [ $attempt -ge $max_attempts ]
AttemptsExhausted == shAttempt >= max_attempts

\* one evaluation of the loop condition `! nc -z 127.0.0.1 $port`, with the
\* loop body when the port is closed and the code after the loop when it is
\* open (the next wait_for_port, or the sleep before Caddy)
Poll ==
  /\ shPc = "polling"
  /\ IF shPort \in openPorts
     THEN /\ observed' = observed \cup {shPort}
          /\ IF shPort = StorybookPort
             THEN EnterWait(McpPort)
             ELSE /\ shPc' = "initializing"
                  /\ polls' = polls + 1
                  /\ UNCHANGED <<shPort, shAttempt>>
          /\ UNCHANGED exitStatus
     ELSE /\ polls' = polls + 1
          /\ IF AttemptsExhausted
             THEN /\ shPc' = "exited"
                  /\ exitStatus' = 1
                  /\ UNCHANGED shAttempt
             ELSE /\ shAttempt' = shAttempt + 1
                  /\ UNCHANGED <<shPc, exitStatus>>
          /\ UNCHANGED <<shPort, observed>>
  /\ UNCHANGED <<openPorts, notStartVars>>

\* sleep 10 is over: caddy run, in the foreground
RunCaddy ==
  /\ shPc = "initializing"
  /\ shPc' = "caddy"
  /\ UNCHANGED <<shPort, shAttempt, openPorts, observed, polls, exitStatus,
                 notStartVars>>

NextStart ==
  \/ StartServices
  \/ PortOpens
  \/ PortCloses
  \/ Poll
  \/ RunCaddy

SpecStart == InitStart /\ [][NextStart]_vars

\* a poll of the current wait_for_port that finds the port closed
FailedPoll == shPc = "polling" /\ polls' = polls + 1 /\ shPc' # "initializing"

\* C30: Caddy is started only after nc has found both port 6006 and port 4005
\* open; a wait_for_port whose 120th poll still finds the port closed ends the
\* script with status 1, the script exits in no other way, and once it has
\* exited Caddy is not started.
C30_CaddyAfterBothPorts ==
  /\ [](shPc \in {"initializing", "caddy"} => observed = ServicePorts)
  /\ [][(shPc # "caddy" /\ shPc' = "caddy")
          => (shPc = "initializing" /\ exitStatus = -1)]_vars
  /\ [][(FailedPoll /\ polls' = max_attempts)
          => (shPc' = "exited" /\ exitStatus' = 1)]_vars
  /\ [](shPc = "exited" =>
          (exitStatus = 1 /\ polls = max_attempts /\ shPort \notin observed))
  /\ [][shPc = "exited" => shPc' = "exited"]_vars
  /\ [](polls <= max_attempts)

\* Storybook was found listening, the MCP server's port was closed at each
\* of 120 polls, and the script has exited
C30_Witness ==
  /\ shPc = "exited"
  /\ shPort = McpPort
  /\ observed = {StorybookPort}
  /\ polls = max_attempts
  /\ exitStatus = 1


----------------------------------------------------------------------------
(* The Source Code panel of the Storybook manager                          *)

\* the upper-case letter of each lower-case letter
UpperOf ==
  [c \in Lower |->
     LET i == CHOOSE k \in 1..Len(LowerLetters) : SubSeq(LowerLetters, k, k) = c
     IN SubSeq(UpperLetters, i, i)]

\* w.charAt(0).toUpperCase() + w.slice(1)
Capitalize(w) ==
  IF w = "" THEN ""
  ELSE LET c == SubSeq(w, 1, 1)
       IN (IF c \in Lower THEN UpperOf[c] ELSE c) \o From(w, 2)

\* s.split('-')
RECURSIVE SplitHyphen(_)
SplitHyphen(s) ==
  LET i == IndexOf(s, "-")
  IN IF i = 0 THEN <<s>>
     ELSE <<SubSeq(s, 1, i - 1)>> \o SplitHyphen(From(s, i + 1))

\* words.join(sep)
RECURSIVE Join(_, _)
Join(words, sep) ==
  IF Len(words) = 0 THEN ""
  ELSE IF Len(words) = 1 THEN words[1]
  ELSE words[1] \o sep \o Join(Tail(words), sep)

\* s.replace(/\s+/g, '') and s.replace(/-/g, ''): s without the characters of C
RECURSIVE Without(_, _)
Without(s, C) ==
  IF s = "" THEN ""
  ELSE (IF SubSeq(s, 1, 1) \in C THEN "" ELSE SubSeq(s, 1, 1))
         \o Without(From(s, 2), C)

\* the index at which the `.+` of /^generated[-\/]?(.+)/i starts in s, 0
\* when s does not match
AfterGenerated(s) ==
  IF ~StartsWith(ToLowerCase(s), "generated") \/ Len(s) < 10 THEN 0
  ELSE IF CharAt(s, 10) \in {"-", "/"} /\ Len(s) >= 11 THEN 11
  ELSE 10

\* currentStoryId.match(/^(generated[-\/]?.+?)(?:--(.*))?$/i): the lazy
\* group 1 ends before the first "--" that leaves it at least one character
\* after the prefix, group 2 is what follows that "--"
BaseIdMatch(id) ==
  LET start == AfterGenerated(id)
      dashes == IF start = 0 THEN 0 ELSE IndexOfFrom(id, "--", start + 1)
  IN IF start = 0 THEN [matched |-> FALSE, baseId |-> "", variant |-> ""]
     ELSE IF dashes = 0 THEN [matched |-> TRUE, baseId |-> id, variant |-> ""]
     ELSE [matched |-> TRUE, baseId |-> SubSeq(id, 1, dashes - 1),
           variant |-> From(id, dashes + 2)]

\* keysToTry of the lookup effect
KeysToTry(id, title) ==
  LET m == BaseIdMatch(id)
      comp == From(m.baseId, AfterGenerated(m.baseId))
      componentNameLower == Without(comp, {"-"})
      pascalCase == Capitalize(componentNameLower)
      words == SplitHyphen(comp)
      capitalized == [k \in DOMAIN words |-> Capitalize(words[k])]
  IN <<id>>
     \o (IF m.matched
         THEN (IF m.variant # "" /\ m.variant # "default"
               THEN <<m.baseId \o "--default">> ELSE <<>>)
              \o <<m.baseId>>
              \o (IF AfterGenerated(m.baseId) # 0
                  THEN <<componentNameLower, pascalCase,
                         pascalCase \o ".stories.tsx">>
                       \o (IF Len(words) > 1
                           THEN <<Join(capitalized, ""), Join(capitalized, " ")>>
                           ELSE <<>>)
                  ELSE <<>>)
         ELSE <<>>)
     \o (IF title # ""
         THEN <<title, Without(title, Space),
                Without(title, Space) \o ".stories.tsx">>
         ELSE <<>>)

\* obj[key] of a JavaScript object, "" standing for undefined
Get(obj, key) == IF key \in DOMAIN obj THEN obj[key] ELSE ""

\* obj[key] = value
Put(obj, key, value) ==
  [k \in DOMAIN obj \cup {key} |-> IF k = key THEN value ELSE obj[k]]

EmptyObject == [k \in {} |-> ""]

\* for (const key of keysToTry) if (stored[key]) { cachedCode = stored[key]; break }
RECURSIVE FirstStored(_, _)
FirstStored(stored, keys) ==
  IF keys = <<>> THEN ""
  ELSE IF Get(stored, Head(keys)) # "" THEN Get(stored, Head(keys))
  ELSE FirstStored(stored, Tail(keys))

\* the stories the sidebar offers; the second is not known to Storybook yet
StoryIds ==
  {"generated-card--default", "generated-card--primary",
   "generated-info-box--default", "example-button--primary"}

NoStory == [exists |-> FALSE, title |-> "", source |-> ""]

\* api.getData(storyId), with the source its parameters carry
GetData(id) ==
  CASE id = "generated-card--default" ->
         [exists |-> TRUE, title |-> "Card", source |-> ""]
    [] id = "generated-info-box--default" ->
         [exists |-> TRUE, title |-> "Info Box", source |-> "<InfoBox />"]
    [] id = "example-button--primary" ->
         [exists |-> TRUE, title |-> "Button", source |-> ""]
    [] OTHER -> NoStory

\* the code a CODE_GENERATED event may carry
EventCodes == {"", "<Card />", "<Badge />"}

EventIds == {"generated-card--default", "example-button--primary"}

\* what the generator panel has left in localStorage
LocalStores ==
  { EmptyObject,
    [k \in {"Card"} |-> "<Old />"],
    [k \in {"generated-card--default", "Button"} |-> "<Stored />"] }

\* window.top || window
TopCache == IF embedded THEN topCache ELSE windowCache

\* topWindow.__STORY_UI_GENERATED_CODE__?.[id] || window.__STORY_UI_GENERATED_CODE__?.[id]
MemoryCached(id) ==
  IF Get(TopCache, id) # "" THEN Get(TopCache, id) ELSE Get(windowCache, id)

\* a handler that empties the cache before it stores the code
StoreCodeAlone(cache, data) == Put(EmptyObject, data.storyId, data.code)

\* window.__STORY_UI_GENERATED_CODE__[data.storyId] = data.code
StoreCode(cache, data) == Put(cache, data.storyId, data.code)

\* topWindow.__STORY_UI_GENERATED_CODE__[key] = value
PutTop(key, value) ==
  IF embedded
  THEN topCache' = Put(topCache, key, value) /\ UNCHANGED windowCache
  ELSE windowCache' = Put(windowCache, key, value) /\ UNCHANGED topCache

\* the body of the effect `Try to get source code from the story` for story
\* id; storyTitle is read as the render that created the effect saw it
LookupEffect(id, isActive) ==
  IF id = "" \/ ~isActive
  THEN UNCHANGED <<sourceCode, storyTitle, windowCache, topCache>>
  ELSE LET story == GetData(id)
           memory == MemoryCached(id)
           stored == FirstStored(localStore, KeysToTry(id, storyTitle))
       IN /\ storyTitle' = IF story.exists THEN story.title ELSE id
          /\ IF story.exists /\ story.source # ""
             THEN /\ sourceCode' = story.source
                  /\ UNCHANGED <<windowCache, topCache>>
             ELSE IF Includes(id, "generated")
             THEN IF memory # ""
                  THEN /\ sourceCode' = memory
                       /\ UNCHANGED <<windowCache, topCache>>
                  ELSE /\ sourceCode' = stored
                       /\ IF stored # ""
                          THEN PutTop(id, stored)
                          ELSE UNCHANGED <<windowCache, topCache>>
             ELSE /\ sourceCode' = ""
                  /\ UNCHANGED <<windowCache, topCache>>

\* the manager page is loaded and the panel mounted, no story selected yet
InitPanel ==
  /\ panelOp = "mounted"
  /\ embedded \in BOOLEAN
  /\ active = FALSE
  /\ currentStoryId = ""
  /\ sourceCode = ""
  /\ storyTitle = ""
  /\ windowCache = EmptyObject
  /\ topCache = EmptyObject
  /\ localStore \in LocalStores
  /\ lastEvent = NoEvent
  /\ ParseIdle /\ ExtractIdle /\ ScanIdle /\ AppIdle /\ HlIdle /\ RawIdle
  /\ StartIdle

\* the user selects a story: state.storyId changes and the effect runs
SelectStory ==
  /\ panelOp # "off"
  /\ \E id \in StoryIds \ {currentStoryId} :
       /\ currentStoryId' = id
       /\ LookupEffect(id, active)
  /\ lastEvent' = NoEvent
  /\ UNCHANGED <<panelOp, embedded, active, localStore, notPanelVars>>

\* the user opens or leaves the panel's tab: the prop active changes and the
\* effect runs
ToggleActive ==
  /\ panelOp # "off"
  /\ active' = ~active
  /\ LookupEffect(currentStoryId, ~active)
  /\ lastEvent' = NoEvent
  /\ UNCHANGED <<panelOp, embedded, currentStoryId, localStore, notPanelVars>>

\* handleCodeGenerated(data)
CodeGenerated ==
  /\ panelOp # "off"
  /\ \E id \in EventIds, eventCode \in EventCodes :
       LET data == [storyId |-> id, code |-> eventCode]
       IN /\ windowCache' = StoreCode(windowCache, data)
          /\ topCache' = IF embedded THEN StoreCode(topCache, data) ELSE topCache
          /\ sourceCode' = IF data.storyId = currentStoryId THEN data.code
                           ELSE sourceCode
          /\ lastEvent' = [storyId |-> id, code |-> eventCode, emitted |-> TRUE]
  /\ UNCHANGED <<panelOp, embedded, active, currentStoryId, storyTitle,
                 localStore, notPanelVars>>

NextPanel ==
  \/ SelectStory
  \/ ToggleActive
  \/ CodeGenerated

SpecPanel == InitPanel /\ [][NextPanel]_vars


\* ---------------------------------------------------------------------
\* C29: the generated-code cache

\* the step handles a CODE_GENERATED event: it stores the event's code under
\* the event's storyId in the cache of window and of window.top, leaves every
\* other entry as it was, and sets the displayed source to the code exactly
\* when the storyId is the current story's
EventStored ==
  lastEvent'.emitted =>
    LET id == lastEvent'.storyId
        eventCode == lastEvent'.code
    IN /\ windowCache' = Put(windowCache, id, eventCode)
       /\ TopCache' = Put(TopCache, id, eventCode)
       /\ id \in DOMAIN windowCache'
       /\ sourceCode' = IF id = currentStoryId THEN eventCode ELSE sourceCode

\* the story is one the panel takes for generated and carries no source in
\* its parameters
GeneratedWithoutSource(id) ==
  /\ id # ""
  /\ Includes(id, "generated")
  /\ GetData(id).source = ""

\* the step selects another story while the panel is shown
SelectedLater == currentStoryId' # currentStoryId /\ active

\* the step runs the lookup effect: another story or a change of active,
\* with the panel shown afterwards
LookupRuns ==
  /\ currentStoryId' # currentStoryId \/ active' # active
  /\ active'

\* C29 as claimed: a CODE_GENERATED event stores its code in the cache under
\* its storyId, overwriting that entry and leaving the others, and changes the
\* displayed source only for the current story; a generated story without a
\* parameter source that is selected later shows its cached code, and the
\* empty source when the cache has no entry for it.
C29_CacheThenEmpty ==
  [][EventStored
       /\ ((SelectedLater /\ GeneratedWithoutSource(currentStoryId'))
             => sourceCode' = Get(TopCache, currentStoryId'))]_vars

\* C29, amended: the event is handled as claimed; when the lookup runs for a
\* generated story without a parameter source, non-empty cached code is
\* displayed and the cache is left alone; with no cached code, or an empty
\* one, the displayed source comes from localStorage: the entry under the
\* story's id if there is one, otherwise one found under a derived key, and
\* whatever is found is copied into the cache under the story's id; the
\* source is empty only when localStorage gives nothing, and always when it
\* is empty.
C29_CacheThenLocalStorage ==
  [][EventStored
       /\ ((LookupRuns /\ GeneratedWithoutSource(currentStoryId')) =>
             LET id == currentStoryId'
             IN IF Get(TopCache, id) # ""
                THEN /\ sourceCode' = Get(TopCache, id)
                     /\ UNCHANGED <<windowCache, topCache>>
                ELSE /\ sourceCode' \in {""} \cup Range(localStore)
                     /\ Get(localStore, id) # "" =>
                          sourceCode' = Get(localStore, id)
                     /\ localStore = EmptyObject => sourceCode' = ""
                     /\ sourceCode' # "" => TopCache' = Put(TopCache, id, sourceCode')
                     /\ sourceCode' = "" => UNCHANGED <<windowCache, topCache>>)]_vars

\* the code an event left in the cache is displayed for the selected story
\* although localStorage holds other code for it, and the entry of another
\* story is still in the cache
C29_Witness ==
  /\ panelOp = "mounted"
  /\ active
  /\ lastEvent = NoEvent
  /\ currentStoryId = "generated-card--default"
  /\ Get(windowCache, currentStoryId) = "<Card />"
  /\ sourceCode = "<Card />"
  /\ Get(localStore, currentStoryId) = "<Stored />"
  /\ Get(windowCache, "example-button--primary") = "<Badge />"

====
